---- MODULE Spec2Model ----
(***************************************************************************)
(* A model of the jenkins-generator artifact generators                    *)
(* (CloudProviderService, IaCService, DockerComposeService) and of         *)
(* CICDGeneratorService.run.                                               *)
(*                                                                         *)
(* Generated text is a sequence of lines; a line is a record               *)
(*   [op, var, segs]                                                       *)
(* where segs is the line's text cut into segments:                        *)
(*   Lit(s)  text of the template itself,                                  *)
(*   Env(n)  a shell reference ${n} / $n that the template escapes and     *)
(*           leaves for the shell to expand when the script runs,          *)
(*   Val(s)  the text a template interpolation ${expr} produced from the   *)
(*           configuration when the script was generated.                  *)
(* op is what the line does when a shell executes it; the shell syntax     *)
(* around the segments is the one op stands for:                           *)
(*   note    a comment, or an echo to standard output                      *)
(*   data    a line of a here-document, or of a declarative manifest       *)
(*   run     segs is a command                                             *)
(*   set     var=$(segs): var takes the output of the command segs         *)
(*   export  export var="segs"                                             *)
(*   append  echo "segs" >> var (var names the file)                       *)
(*   if      if [ "segs[1]" var "segs[2]" ]; then   (var is != or ==)      *)
(*           if [ -z "segs[1]" ]; then              (var is -z)            *)
(*   elif    as if; else, fi                                               *)
(***************************************************************************)
EXTENDS Integers, Sequences, FiniteSets, TLC

VARIABLES
    cloud,        \* the CloudConfig handed to the generators
    artifact,     \* dockerImageName
    project,      \* the ProjectConfig (its externalServices)
    deployment,   \* outcome of generateDeploymentScript
    terraform,    \* outcome of generateTerraformConfig
    compose,      \* outcome of generateDockerCompose
    script,       \* the deployment script a pipeline stage is running
    ip,           \* the line of `script` that runs next
    shell,        \* the shell variables the script has assigned
    ran,          \* the command lines run so far
    stateFile,    \* the lines of deployment.env
    present,      \* whether the deployment target exists already
    step,         \* the step of CICDGeneratorService.run that comes next
    files,        \* the artifacts written to disk
    outcome,      \* of run: "idle", "running", "done" or "failed"
    notification, \* the NotificationConfig handed to generateNotificationScript
    notify,       \* outcome of generateNotificationScript
    post,         \* the post section of the pipeline as it runs
    input,        \* the number handed to validatePort
    valid,        \* outcome of validatePort
    prompted,     \* the external services the wizard has collected
    collected,    \* outcome of collectAllConfigurations
    presetFile,   \* jenkins-generator-config.json: whether it exists, and its text
    source,       \* the part of run that settles the configuration
    credentialsEnv, \* outcome of generateCredentialsEnvironmentVariables
    outputs       \* what each generator returned, call after call

genVars == <<cloud, artifact, project, deployment, terraform, compose>>
execVars == <<script, ip, shell, ran, stateFile, present>>
runVars == <<step, files, outcome>>
noteVars == <<notification, notify, post>>
portVars == <<input, valid>>
wizardVars == <<prompted, collected>>
sourceVars == <<presetFile, source>>
restVars == <<portVars, wizardVars, sourceVars, credentialsEnv, outputs>>
vars == <<genVars, execVars, runVars, noteVars, restVars>>

---------------------------------------------------------------------------
(* Bounds of the model *)

MaxInstances == 2
MaxServices == 2
PortMargin == 3
MaxCalls == 2

---------------------------------------------------------------------------
(* Text *)

Lit(s) == [k |-> "lit", v |-> s]
Env(n) == [k |-> "env", v |-> n]
Val(s) == [k |-> "val", v |-> s]

Ln(op, var, segs) == [op |-> op, var |-> var, segs |-> segs]

Note(segs)           == Ln("note", "", segs)
Data(segs)           == Ln("data", "", segs)
Run(segs)            == Ln("run", "", segs)
Set(var, segs)       == Ln("set", var, segs)
Export(var, segs)    == Ln("export", var, segs)
AppendTo(file, segs) == Ln("append", file, segs)
If(lhs, rel, rhs)    == Ln("if", rel, <<lhs, rhs>>)
Elif(lhs, rel, rhs)  == Ln("elif", rel, <<lhs, rhs>>)
IfEmpty(arg)         == Ln("if", "-z", <<arg>>)
Else                 == Ln("else", "", <<>>)
Fi                   == Ln("fi", "", <<>>)

Digit(d) ==
    CASE d = 0 -> "0" [] d = 1 -> "1" [] d = 2 -> "2" [] d = 3 -> "3"
      [] d = 4 -> "4" [] d = 5 -> "5" [] d = 6 -> "6" [] d = 7 -> "7"
      [] d = 8 -> "8" [] d = 9 -> "9"

RECURSIVE Dec(_)
\* A template's rendering of a non-negative number: its decimal digits.
Dec(n) == IF n < 10 THEN Digit(n) ELSE Dec(n \div 10) \o Digit(n % 10)

\* An optional number that is not set (undefined in the configuration).
NoNum == -1

\* JavaScript's x || d on an optional number: undefined and 0 are falsy.
OrElse(x, d) == IF x = NoNum \/ x = 0 THEN d ELSE x

\* An optional string that is unset is modelled as "": both are falsy, and no
\* template renders one without testing it first.
Truthy(s) == s # ""

---------------------------------------------------------------------------
(* The configurations the generators are applied to *)

SupportedProviders == {"aws", "azure", "gcp", "digitalocean"}
ProviderTags == SupportedProviders \cup {"heroku"}
Strategies == {"rolling", "blue-green", "canary"}
RoleArns == {"", "arn:aws:iam::1:role/ci"}
LoadBalancerUrls == {"", "https://api.example.com"}
InstanceCounts == {NoNum} \cup (1 .. MaxInstances)

\* The values the templates only copy into the text: two projects that
\* differ in every one of them.
Samples ==
    { [artifact |-> "my-app", region |-> "us-east-1", port |-> 3000,
       healthCheckPath |-> "/health"],
      [artifact |-> "shop", region |-> "nyc1", port |-> 80,
       healthCheckPath |-> "/status"] }

Credentials == [useOIDC : BOOLEAN, oidcRoleArn : RoleArns]

Options ==
    [autoScaling : BOOLEAN,
     minInstances : InstanceCounts,
     maxInstances : InstanceCounts,
     useLoadBalancer : BOOLEAN,
     loadBalancerUrl : LoadBalancerUrls,
     deploymentStrategy : Strategies]

DeploymentConfig(sample, o) ==
    [autoScaling |-> o.autoScaling,
     minInstances |-> o.minInstances,
     maxInstances |-> o.maxInstances,
     healthCheckPath |-> sample.healthCheckPath,
     port |-> sample.port,
     useLoadBalancer |-> o.useLoadBalancer,
     loadBalancerUrl |-> o.loadBalancerUrl,
     deploymentStrategy |-> o.deploymentStrategy]

CloudConfig(provider, credentials, sample, o) ==
    [provider |-> provider,
     credentials |-> credentials,
     region |-> sample.region,
     deploymentConfig |-> DeploymentConfig(sample, o)]

\* An ExternalService: display name and product identifier, as characters.
Postgres ==
    [name |-> <<"M", "a", "i", "n", " ", "D", "B">>,
     service |-> <<"p", "o", "s", "t", "g", "r", "e", "s", "q", "l">>,
     requiresInfrastructure |-> TRUE]
Stripe ==
    [name |-> <<"S", "t", "r", "i", "p", "e">>,
     service |-> <<"s", "t", "r", "i", "p", "e">>,
     requiresInfrastructure |-> FALSE]

Mongo ==
    [name |-> <<"m", "a", "i", "n", " ", " ", "d", "b">>,
     service |-> <<"M", "o", "n", "g", "o", "D", "B">>,
     requiresInfrastructure |-> TRUE]
Redis ==
    [name |-> <<"C", "a", "c", "h", "e">>,
     service |-> <<"r", "e", "d", "i", "s">>,
     requiresInfrastructure |-> TRUE]
MySql ==
    [name |-> <<"m", "y", "s", "q", "l">>,
     service |-> <<"m", "y", "s", "q", "l">>,
     requiresInfrastructure |-> TRUE]
MariaDb ==
    [name |-> <<"M", "a", "r", "i", "a", " ", "D", "B">>,
     service |-> <<"m", "a", "r", "i", "a", "d", "b">>,
     requiresInfrastructure |-> TRUE]
RabbitMq ==
    [name |-> <<"Q", "u", "e", "u", "e">>,
     service |-> <<"r", "a", "b", "b", "i", "t", "m", "q">>,
     requiresInfrastructure |-> TRUE]
UnknownThing ==
    [name |-> <<"T", "h", "i", "n", "g">>,
     service |-> <<"u", "n", "k", "n", "o", "w", "n", "-", "t", "h", "i", "n", "g">>,
     requiresInfrastructure |-> TRUE]
AppDatabase ==
    [name |-> <<"A", "p", "p">>,
     service |-> <<"p", "o", "s", "t", "g", "r", "e", "s", "q", "l">>,
     requiresInfrastructure |-> TRUE]

\* The services of the projects the compose generator is tried on: every
\* product of the lookup table, one it does not know, one that asks for no
\* infrastructure, two whose display names differ in case and spacing only,
\* and one whose display name is the application's own service name.
ExternalServices ==
    {Postgres, Stripe, Mongo, Redis, MySql, MariaDb, RabbitMq, UnknownThing,
     AppDatabase}

GenProjects ==
    {[externalServices |-> <<Postgres, Stripe>>],
     [externalServices |-> <<AppDatabase>>]}

ComposeProjects ==
    { [externalServices |-> s] :
        s \in UNION { [1 .. n -> ExternalServices] : n \in 0 .. MaxServices } }

---------------------------------------------------------------------------
(* CloudProviderService.generateDeployedUrlExport *)

\* Variant: the URL alone decides, useLoadBalancer is not consulted.
generateDeployedUrlExport_UrlOnly(deploymentConfig, defaultUrlScript) ==
    IF Truthy(deploymentConfig.loadBalancerUrl)
    THEN << Export("DEPLOYED_URL", <<Val(deploymentConfig.loadBalancerUrl)>>),
            AppendTo("deployment.env", <<Lit("DEPLOYED_URL="), Env("DEPLOYED_URL")>>),
            Note(<<Lit("echo \"Deployment completed. Reachable at Load Balancer: "),
                   Env("DEPLOYED_URL"), Lit("\"")>>) >>
    ELSE defaultUrlScript \o
         << AppendTo("deployment.env", <<Lit("DEPLOYED_URL="), Env("DEPLOYED_URL")>>),
            Note(<<Lit("echo \"Deployment completed. Reachable at: "),
                   Env("DEPLOYED_URL"), Lit("\"")>>) >>

\* Variant: the provider's lookup comes after the line is appended.
generateDeployedUrlExport_AppendFirst(deploymentConfig, defaultUrlScript) ==
    IF deploymentConfig.useLoadBalancer /\ Truthy(deploymentConfig.loadBalancerUrl)
    THEN << Export("DEPLOYED_URL", <<Val(deploymentConfig.loadBalancerUrl)>>),
            AppendTo("deployment.env", <<Lit("DEPLOYED_URL="), Env("DEPLOYED_URL")>>),
            Note(<<Lit("echo \"Deployment completed. Reachable at Load Balancer: "),
                   Env("DEPLOYED_URL"), Lit("\"")>>) >>
    ELSE << AppendTo("deployment.env", <<Lit("DEPLOYED_URL="), Env("DEPLOYED_URL")>>) >>
         \o defaultUrlScript \o
         << Note(<<Lit("echo \"Deployment completed. Reachable at: "),
                   Env("DEPLOYED_URL"), Lit("\"")>>) >>

generateDeployedUrlExport(deploymentConfig, defaultUrlScript) ==
    IF deploymentConfig.useLoadBalancer /\ Truthy(deploymentConfig.loadBalancerUrl)
    THEN << Export("DEPLOYED_URL", <<Val(deploymentConfig.loadBalancerUrl)>>),
            AppendTo("deployment.env", <<Lit("DEPLOYED_URL="), Env("DEPLOYED_URL")>>),
            Note(<<Lit("echo \"Deployment completed. Reachable at Load Balancer: "),
                   Env("DEPLOYED_URL"), Lit("\"")>>) >>
    ELSE defaultUrlScript \o
         << AppendTo("deployment.env", <<Lit("DEPLOYED_URL="), Env("DEPLOYED_URL")>>),
            Note(<<Lit("echo \"Deployment completed. Reachable at: "),
                   Env("DEPLOYED_URL"), Lit("\"")>>) >>

---------------------------------------------------------------------------
(* CloudProviderService.generateAWSDeploymentScript *)

AWSStaticAuth(region) ==
    << Note(<<Lit("#AWS Deployment Configuration")>>),
       Run(<<Lit("aws configure set aws_access_key_id "), Env("AWS_ACCESS_KEY_ID")>>),
       Run(<<Lit("aws configure set aws_secret_access_key "),
             Env("AWS_SECRET_ACCESS_KEY")>>),
       Run(<<Lit("aws configure set region "), Val(region)>>) >>

AWSOidcAuth(region, oidcRoleArn) ==
    << Note(<<Lit("# AWS OIDC Authentication")>>),
       Note(<<Lit("echo \"Authenticating via OIDC...\"")>>),
       Run(<<Lit("export $(printf \"AWS_ACCESS_KEY_ID=%s AWS_SECRET_ACCESS_KEY=%s AWS_SESSION_TOKEN=%s\" $(aws sts assume-role-with-web-identity --role-arn "),
             Val(oidcRoleArn),
             Lit(" --role-session-name JenkinsSession --web-identity-token "),
             Env("AWS_WEB_IDENTITY_TOKEN"),
             Lit(" --query \"Credentials.[AccessKeyId,SecretAccessKey,SessionToken]\" --output text))")>>),
       Run(<<Lit("aws configure set region "), Val(region)>>) >>

\* Variant: the OIDC block is added to the static block.
AWSAuthLogic_Both(config) ==
    IF config.credentials.useOIDC /\ Truthy(config.credentials.oidcRoleArn)
    THEN AWSOidcAuth(config.region, config.credentials.oidcRoleArn)
           \o AWSStaticAuth(config.region)
    ELSE AWSStaticAuth(config.region)

AWSAuthLogic(config) ==
    IF config.credentials.useOIDC /\ Truthy(config.credentials.oidcRoleArn)
    THEN AWSOidcAuth(config.region, config.credentials.oidcRoleArn)
    ELSE AWSStaticAuth(config.region)

AWSTaskDefinition(config, dockerImageName) ==
    LET port == Dec(config.deploymentConfig.port) IN
    << Note(<<Lit("#Create/Update ECS Cluster")>>),
       Run(<<Lit("aws ecs create-cluster --cluster-name "), Val(dockerImageName),
             Lit("-cluster || true")>>),
       Note(<<Lit("#Register Task Definition")>>),
       Run(<<Lit("cat >task-definition.json << EOF")>>),
       Data(<<Lit("\"family\": \""), Val(dockerImageName), Lit("\",")>>),
       Data(<<Lit("\"networkMode\": \"awsvpc\",")>>),
       Data(<<Lit("\"requiresCompatibility\": [\"FARGATE\"],")>>),
       Data(<<Lit("\"cpu\": \"256\",")>>),
       Data(<<Lit("\"memory\": \"512\",")>>),
       Data(<<Lit("\"name\": \""), Val(dockerImageName), Lit("\",")>>),
       Data(<<Lit("\"image\": \""), Env("DOCKER_IMAGE"), Lit("\",")>>),
       Data(<<Lit("\"containerPort\": "), Val(port), Lit(",")>>),
       Data(<<Lit("\"protocol\": \"tcp\"")>>),
       Data(<<Lit("\"logDriver\": \"awslogs\",")>>),
       Data(<<Lit("\"awslogs-group\": \"/ecs/"), Val(dockerImageName), Lit("\",")>>),
       Data(<<Lit("\"awslogs-region\": \""), Val(config.region), Lit("\",")>>),
       Data(<<Lit("\"awslogs-stream-prefix\": \"ecs\"")>>),
       Data(<<Lit("\"command\": [\"CMD-SHELL\", \"curl -f http://localhost:"),
              Val(port), Val(config.deploymentConfig.healthCheckPath),
              Lit(" || exit 1\"],")>>),
       Data(<<Lit("\"interval\": 30,")>>),
       Data(<<Lit("\"timeout\": 5,")>>),
       Data(<<Lit("\"retries\": 3")>>),
       Data(<<Lit("EOF")>>),
       Run(<<Lit("aws ecs register-task-definition --cli-input-json file://task-definition.json")>>) >>

AWSUpdateService(dockerImageName, flags) ==
    Run(<<Lit("aws ecs update-service --cluster "), Val(dockerImageName),
          Lit("-cluster --service "), Val(dockerImageName),
          Lit("-service --task-definition "), Val(dockerImageName)>> \o flags)

AWSServiceBlock(config, dockerImageName) ==
    LET dc == config.deploymentConfig IN
    << Note(<<Lit("# Check if ECS service exists")>>),
       Set("SERVICE_EXISTS",
           <<Lit("aws ecs describe-services --cluster "),
             Val(dockerImageName), Lit("-cluster --services "), Val(dockerImageName),
             Lit("-service --query 'services[0].status' --output text || echo \"MISSING\"")>>),
       If(Env("SERVICE_EXISTS"), "!=", Lit("ACTIVE")),
       Note(<<Lit("echo \"Creating new ECS service...\"")>>),
       Run(<<Lit("aws ecs create-service --cluster "), Val(dockerImageName),
             Lit("-cluster --service-name "), Val(dockerImageName),
             Lit("-service --task-definition "), Val(dockerImageName),
             Lit(" --desired-count "), Val(Dec(OrElse(dc.minInstances, 1))),
             Lit(" --launch-type FARGATE --network-configuration \"awsvpcConfiguration={subnets=["),
             Env("SUBNET_IDS"), Lit("], securityGroups=["), Env("SECURITY_GROUP_IDS"),
             Lit("], assignPublicIp=ENABLED}\"")>>),
       Else,
       Note(<<Lit("echo \"Updating existing ECS service with "),
              Val(dc.deploymentStrategy), Lit(" strategy...\"")>>),
       If(Val(dc.deploymentStrategy), "==", Lit("blue-green")),
       Note(<<Lit("echo \"Performing Blue-Green deployment...\"")>>),
       Note(<<Lit("# Simulating blue-green by creating/updating a 'green' version")>>),
       AWSUpdateService(dockerImageName, <<Lit(" --force-new-deployment")>>),
       Elif(Val(dc.deploymentStrategy), "==", Lit("canary")),
       Note(<<Lit("echo \"Performing Canary deployment (10% traffic)...\"")>>),
       AWSUpdateService(dockerImageName,
                        <<Lit(" --desired-count $(( "),
                          Val(Dec(OrElse(dc.minInstances, 1))), Lit(" + 1 ))")>>),
       Else,
       AWSUpdateService(dockerImageName, <<Lit(" --force-new-deployment")>>),
       Fi,
       Fi >>

AWSDefaultUrlScript(config, dockerImageName) ==
    << Set("TASK_ARN",
           <<Lit("aws ecs list-tasks --cluster "), Val(dockerImageName),
             Lit("-cluster --service-name "), Val(dockerImageName),
             Lit("-service --query 'taskArns[0]' --output text")>>),
       Set("ENI_ID",
           <<Lit("aws ecs describe-tasks --cluster "), Val(dockerImageName),
             Lit("-cluster --tasks "), Env("TASK_ARN"),
             Lit(" --query 'tasks[0].attachments[0].details[?name==`networkInterfaceId`].value' --output text")>>),
       Set("PUBLIC_IP",
           <<Lit("aws ec2 describe-network-interfaces --network-interface-ids "),
             Env("ENI_ID"),
             Lit(" --query 'NetworkInterfaces[0].Association.PublicIp' --output text")>>),
       Export("DEPLOYED_URL",
              <<Lit("http://"), Env("PUBLIC_IP"), Lit(":"),
                Val(Dec(config.deploymentConfig.port))>>) >>

generateAWSDeploymentScript(config, dockerImageName) ==
    AWSAuthLogic(config)
      \o AWSTaskDefinition(config, dockerImageName)
      \o AWSServiceBlock(config, dockerImageName)
      \o generateDeployedUrlExport(config.deploymentConfig,
                                   AWSDefaultUrlScript(config, dockerImageName))

---------------------------------------------------------------------------
(* CloudProviderService.generateAzureDeploymentScript *)

AzureStaticAuth ==
    << Note(<<Lit("# Azure Deployment Configuration")>>),
       Run(<<Lit("az login --service-principal -u "), Env("AZURE_CLIENT_ID"),
             Lit(" -p "), Env("AZURE_CLIENT_SECRET"),
             Lit(" -t "), Env("AZURE_TENANT_ID")>>) >>

AzureOidcAuth ==
    << Note(<<Lit("# Azure OIDC Authentication")>>),
       Note(<<Lit("echo \"Authenticating via OIDC...\"")>>),
       Run(<<Lit("az login --service-principal -u "), Env("AZURE_CLIENT_ID"),
             Lit(" -t "), Env("AZURE_TENANT_ID"),
             Lit(" --federated-token "), Env("AZURE_FEDERATED_TOKEN")>>) >>

AzureAuthLogic(config) ==
    IF config.credentials.useOIDC THEN AzureOidcAuth ELSE AzureStaticAuth

\* Variant: the URL names the default HTTP port.
AzureDefaultUrlScript_DefaultPort(config, dockerImageName) ==
    << Export("DEPLOYED_URL",
              <<Lit("http://"), Val(dockerImageName), Lit("."),
                Env("AZURE_REGION"), Lit(".azurecontainer.io:"), Val("80")>>) >>

AzureDefaultUrlScript(config, dockerImageName) ==
    << Export("DEPLOYED_URL",
              <<Lit("http://"), Val(dockerImageName), Lit("."),
                Env("AZURE_REGION"), Lit(".azurecontainer.io:"),
                Val(Dec(config.deploymentConfig.port))>>) >>

generateAzureDeploymentScript(config, dockerImageName) ==
    AzureAuthLogic(config)
      \o << Run(<<Lit("az account set --subscription "), Env("AZURE_SUBSCRIPTION_ID")>>),
            Note(<<Lit("# Create Resource Group")>>),
            Run(<<Lit("az group create --name "), Env("RESOURCE_GROUP_NAME"),
                  Lit(" --location "), Env("REGION")>>),
            Note(<<Lit("# Create Container Instance")>>),
            Run(<<Lit("az container create --resource-group "), Env("RESOURCE_GROUP"),
                  Lit(" --name "), Val(dockerImageName),
                  Lit(" --image "), Env("DOCKER_IMAGE"),
                  Lit(" --cpu 1 --memory 1.5 --registry-login-server "),
                  Env("ACR_LOGIN_SERVER"),
                  Lit(" --registry-username "), Env("ACR_USERNAME"),
                  Lit(" --registry-password "), Env("ACR_PASSWORD"),
                  Lit(" --dns-name-label "), Val(dockerImageName),
                  Lit(" --ports "), Val(Dec(config.deploymentConfig.port)),
                  Lit(" --environment-variables NODE_ENV=production --restart-policy Always")>>) >>
      \o generateDeployedUrlExport(config.deploymentConfig,
                                   AzureDefaultUrlScript(config, dockerImageName))

---------------------------------------------------------------------------
(* CloudProviderService.generateGCPDeploymentScript *)

GCPStaticAuth(region) ==
    << Note(<<Lit("# GCP Deployment Configuration")>>),
       Run(<<Lit("gcloud auth activate-service-account --key-file="),
             Env("GCP_KEY_FILE")>>),
       Run(<<Lit("gcloud config set project "), Env("GCP_PROJECT_ID")>>),
       Run(<<Lit("gcloud config set compute/region "), Val(region)>>) >>

GCPOidcAuth(region) ==
    << Note(<<Lit("# GCP OIDC Authentication")>>),
       Note(<<Lit("echo \"Authenticating via OIDC...\"")>>),
       Run(<<Lit("echo "), Env("GCP_OIDC_TOKEN"), Lit(" > oidc_token.txt")>>),
       Run(<<Lit("gcloud auth login --cred-file=oidc_token.txt")>>),
       Run(<<Lit("gcloud config set project "), Env("GCP_PROJECT_ID")>>),
       Run(<<Lit("gcloud config set compute/region "), Val(region)>>) >>

GCPAuthLogic(config) ==
    IF config.credentials.useOIDC
    THEN GCPOidcAuth(config.region) ELSE GCPStaticAuth(config.region)

GCPDefaultUrlScript ==
    << Set("DEPLOYED_URL", <<Lit("cat gcp_url.txt")>>) >>

generateGCPDeploymentScript(config, dockerImageName) ==
    LET dc == config.deploymentConfig IN
    GCPAuthLogic(config)
      \o << Note(<<Lit("# Deploy to Cloud Run")>>),
            Run(<<Lit("gcloud run deploy "), Val(dockerImageName),
                  Lit(" --image "), Env("DOCKER_IMAGE"),
                  Lit(" --platform managed --port "), Val(Dec(dc.port)),
                  Lit(" --memory 512Mi --cpu 1 --min-instances "),
                  Val(Dec(OrElse(dc.minInstances, 0))),
                  Lit(" --max-instances "), Val(Dec(OrElse(dc.maxInstances, 1))),
                  Lit(" --set-env-vars NODE_ENV=production --region "),
                  Val(config.region),
                  Lit(" --format='value(status.url)' > gcp_url.txt")>>) >>
      \o generateDeployedUrlExport(dc, GCPDefaultUrlScript)

---------------------------------------------------------------------------
(* CloudProviderService.generateDigitalOceanDeploymentScript *)

DODefaultUrlScript ==
    << Set("DEPLOYED_URL",
           <<Lit("doctl apps get "), Env("APP_ID"),
             Lit(" --format DefaultIngress --no-header")>>) >>

generateDigitalOceanDeploymentScript(config, dockerImageName) ==
    LET dc == config.deploymentConfig IN
    << Note(<<Lit("# DigitalOcean Deployment Configuration")>>),
       Run(<<Lit("doctl auth init --access-token "), Env("DO_API_TOKEN")>>),
       Note(<<Lit("#Create App Platform APP")>>),
       Run(<<Lit("cat > app-spec.yaml << EOF")>>),
       Data(<<Lit("name: "), Val(dockerImageName)>>),
       Data(<<Lit("region: "), Val(config.region)>>),
       Data(<<Lit("services:")>>),
       Data(<<Lit("- name: "), Val(dockerImageName)>>),
       Data(<<Lit("image:")>>),
       Data(<<Lit("registry-type: DOCKER_HUB")>>),
       Data(<<Lit("repository: "), Env("DOCKER_IMAGE")>>),
       Data(<<Lit("http_port: "), Val(Dec(dc.port))>>),
       Data(<<Lit("instance_count: "), Val(Dec(OrElse(dc.minInstances, 1)))>>),
       Data(<<Lit("instance_size_slug: basic-xxs")>>),
       Data(<<Lit("health-check:")>>),
       Data(<<Lit("http_path: "), Val(dc.healthCheckPath)>>),
       Data(<<Lit("routes:")>>),
       Data(<<Lit("- path: /")>>),
       Data(<<Lit("EOF")>>),
       Note(<<Lit("# Create or update app")>>),
       Set("APP_ID",
           <<Lit("doctl apps list --format ID --no-header | head -n 1")>>),
       IfEmpty(Env("APP_ID")),
       Run(<<Lit("doctl apps create --spec app-spec.yaml")>>),
       Else,
       Run(<<Lit("doctl apps update "), Env("APP_ID"), Lit(" --spec app-spec.yaml")>>),
       Fi >>
      \o generateDeployedUrlExport(dc, DODefaultUrlScript)

---------------------------------------------------------------------------
(* CloudProviderService.generateDeploymentScript *)

\* A generator's outcome: the text it returned, or the error it threw.
Returned(text) == [status |-> "returned", text |-> text, error |-> ""]
Threw(message) == [status |-> "threw", text |-> <<>>, error |-> message]
NotCalled      == [status |-> "none", text |-> <<>>, error |-> ""]

\* Variant: an unknown provider gets an empty script.
generateDeploymentScript_NoThrow(config, dockerImageName) ==
    CASE config.provider = "aws" ->
           Returned(generateAWSDeploymentScript(config, dockerImageName))
      [] config.provider = "azure" ->
           Returned(generateAzureDeploymentScript(config, dockerImageName))
      [] config.provider = "gcp" ->
           Returned(generateGCPDeploymentScript(config, dockerImageName))
      [] config.provider = "digitalocean" ->
           Returned(generateDigitalOceanDeploymentScript(config, dockerImageName))
      [] OTHER -> Returned(<<>>)

generateDeploymentScript(config, dockerImageName) ==
    CASE config.provider = "aws" ->
           Returned(generateAWSDeploymentScript(config, dockerImageName))
      [] config.provider = "azure" ->
           Returned(generateAzureDeploymentScript(config, dockerImageName))
      [] config.provider = "gcp" ->
           Returned(generateGCPDeploymentScript(config, dockerImageName))
      [] config.provider = "digitalocean" ->
           Returned(generateDigitalOceanDeploymentScript(config, dockerImageName))
      [] OTHER -> Threw("Unsupported cloud provider: " \o config.provider)

---------------------------------------------------------------------------
(* IaCService: the Terraform manifest; every line is declarative text *)

generateAWSTerraform(config, dockerImageName) ==
    << Data(<<Lit("provider \"aws\" {")>>),
       Data(<<Lit("region = \""), Val(config.region), Lit("\"")>>),
       Data(<<Lit("resource \"aws_ecs_cluster\" \"main\" {")>>),
       Data(<<Lit("name = \""), Val(dockerImageName), Lit("-cluster\"")>>),
       Data(<<Lit("resource \"aws_iam_role\" \"ecs_task_execution_role\" {")>>),
       Data(<<Lit("name = \""), Val(dockerImageName), Lit("-task-exec-role\"")>>),
       Data(<<Lit("assume_role_policy = jsonencode({")>>),
       Data(<<Lit("Version = \"2012-10-17\"")>>),
       Data(<<Lit("Action = \"sts:AssumeRole\"")>>),
       Data(<<Lit("Effect = \"Allow\"")>>),
       Data(<<Lit("Service = \"ecs-tasks.amazonaws.com\"")>>),
       Data(<<Lit("resource \"aws_iam_role_policy_attachment\" \"ecs_task_execution_role_policy\" {")>>),
       Data(<<Lit("role = aws_iam_role.ecs_task_execution_role.name")>>),
       Data(<<Lit("policy_arn = \"arn:aws:iam::aws:policy/service-role/AmazonECSTaskExecutionRolePolicy\"")>>) >>

generateAzureTerraform(config, dockerImageName) ==
    << Data(<<Lit("provider \"azurerm\" {")>>),
       Data(<<Lit("features {}")>>),
       Data(<<Lit("resource \"azurerm_resource_group\" \"main\" {")>>),
       Data(<<Lit("name = \""), Env("var.resource_group_name"), Lit("\"")>>),
       Data(<<Lit("location = \""), Val(config.region), Lit("\"")>>),
       Data(<<Lit("resource \"azurerm_container_group\" \"main\" {")>>),
       Data(<<Lit("name = \""), Val(dockerImageName), Lit("\"")>>),
       Data(<<Lit("location = azurerm_resource_group.main.location")>>),
       Data(<<Lit("resource_group_name = azurerm_resource_group.main.name")>>),
       Data(<<Lit("ip_address_type = \"Public\"")>>),
       Data(<<Lit("dns_name_label = \""), Val(dockerImageName), Lit("\"")>>),
       Data(<<Lit("os_type = \"Linux\"")>>),
       Data(<<Lit("container {")>>),
       Data(<<Lit("name = \""), Val(dockerImageName), Lit("\"")>>),
       Data(<<Lit("image = \""), Env("var.docker_image"), Lit("\"")>>),
       Data(<<Lit("cpu = \"1\"")>>),
       Data(<<Lit("memory = \"1.5\"")>>),
       Data(<<Lit("ports {")>>),
       Data(<<Lit("port = "), Val(Dec(config.deploymentConfig.port))>>),
       Data(<<Lit("protocol = \"TCP\"")>>) >>

generateGCPTerraform(config, dockerImageName) ==
    << Data(<<Lit("provider \"google\" {")>>),
       Data(<<Lit("project = \""), Env("var.gcp_project_id"), Lit("\"")>>),
       Data(<<Lit("region = \""), Val(config.region), Lit("\"")>>),
       Data(<<Lit("resource \"google_cloud_run_service\" \"main\" {")>>),
       Data(<<Lit("name = \""), Val(dockerImageName), Lit("\"")>>),
       Data(<<Lit("location = \""), Val(config.region), Lit("\"")>>),
       Data(<<Lit("image = \""), Env("var.docker_image"), Lit("\"")>>),
       Data(<<Lit("ports {")>>),
       Data(<<Lit("container_port = "), Val(Dec(config.deploymentConfig.port))>>),
       Data(<<Lit("traffic {")>>),
       Data(<<Lit("percent = 100")>>),
       Data(<<Lit("latest_revision = true")>>),
       Data(<<Lit("resource \"google_cloud_run_service_iam_member\" \"public_access\" {")>>),
       Data(<<Lit("service = google_cloud_run_service.main.name")>>),
       Data(<<Lit("location = google_cloud_run_service.main.location")>>),
       Data(<<Lit("role = \"roles/run.invoker\"")>>),
       Data(<<Lit("member = \"allUsers\"")>>) >>

generateDOTerraform(config, dockerImageName) ==
    LET dc == config.deploymentConfig IN
    << Data(<<Lit("provider \"digitalocean\" {")>>),
       Data(<<Lit("token = \""), Env("var.do_token"), Lit("\"")>>),
       Data(<<Lit("resource \"digitalocean_app\" \"main\" {")>>),
       Data(<<Lit("spec {")>>),
       Data(<<Lit("name = \""), Val(dockerImageName), Lit("\"")>>),
       Data(<<Lit("region = \""), Val(config.region), Lit("\"")>>),
       Data(<<Lit("service {")>>),
       Data(<<Lit("name = \""), Val(dockerImageName), Lit("\"")>>),
       Data(<<Lit("instance_count = "), Val(Dec(OrElse(dc.minInstances, 1)))>>),
       Data(<<Lit("instance_size_slug = \"basic-xxs\"")>>),
       Data(<<Lit("image {")>>),
       Data(<<Lit("registry_type = \"DOCKER_HUB\"")>>),
       Data(<<Lit("repository = \""), Env("var.docker_image"), Lit("\"")>>),
       Data(<<Lit("http_port = "), Val(Dec(dc.port))>>),
       Data(<<Lit("health_check {")>>),
       Data(<<Lit("http_path = \""), Val(dc.healthCheckPath), Lit("\"")>>) >>

generateTerraformConfig(config, dockerImageName) ==
    CASE config.provider = "aws" ->
           Returned(generateAWSTerraform(config, dockerImageName))
      [] config.provider = "azure" ->
           Returned(generateAzureTerraform(config, dockerImageName))
      [] config.provider = "gcp" ->
           Returned(generateGCPTerraform(config, dockerImageName))
      [] config.provider = "digitalocean" ->
           Returned(generateDOTerraform(config, dockerImageName))
      [] OTHER -> Returned(<<>>)

---------------------------------------------------------------------------
(* Strings the code takes apart are sequences of one-character strings *)

UpperCase == <<"A", "B", "C", "D", "E", "F", "G", "H", "I", "J", "K", "L", "M",
               "N", "O", "P", "Q", "R", "S", "T", "U", "V", "W", "X", "Y", "Z">>
LowerCase == <<"a", "b", "c", "d", "e", "f", "g", "h", "i", "j", "k", "l", "m",
               "n", "o", "p", "q", "r", "s", "t", "u", "v", "w", "x", "y", "z">>

toLowerCaseChar(c) ==
    IF \E i \in 1 .. 26 : UpperCase[i] = c
    THEN LowerCase[CHOOSE i \in 1 .. 26 : UpperCase[i] = c]
    ELSE c

toLowerCase(chars) == [i \in 1 .. Len(chars) |-> toLowerCaseChar(chars[i])]

\* The characters the regular expression class \s matches, of those used here.
IsSpace(c) == c \in {" ", "\t"}

RECURSIVE replaceSpaceRuns(_, _)
\* String.replace(/\s+/g, with): every maximal run of whitespace becomes `with`.
replaceSpaceRuns(chars, with) ==
    IF chars = <<>> THEN <<>>
    ELSE IF IsSpace(Head(chars))
         THEN IF Len(chars) > 1 /\ IsSpace(chars[2])
              THEN replaceSpaceRuns(Tail(chars), with)
              ELSE <<with>> \o replaceSpaceRuns(Tail(chars), with)
         ELSE <<Head(chars)>> \o replaceSpaceRuns(Tail(chars), with)

RECURSIVE Join(_)
\* The string a sequence of characters spells.
Join(chars) == IF chars = <<>> THEN "" ELSE Head(chars) \o Join(Tail(chars))

---------------------------------------------------------------------------
(* DockerComposeService *)

\* The object tree handed to yamlify: a mapping is a sequence of entries in
\* insertion order, an array a sequence of strings, a string its segments.
YStr(segs)    == [t |-> "str", segs |-> segs, items |-> <<>>, entries |-> <<>>]
YArr(items)   == [t |-> "arr", segs |-> <<>>, items |-> items, entries |-> <<>>]
YMap(entries) == [t |-> "map", segs |-> <<>>, items |-> <<>>, entries |-> entries]
Entry(key, val) == [key |-> key, val |-> val]

\* obj[key] = val on a JavaScript object: an existing key keeps its place and
\* takes the new value, a new key goes last.
Put(entries, key, val) ==
    IF \E i \in 1 .. Len(entries) : entries[i].key.v = key.v
    THEN [i \in 1 .. Len(entries) |->
            IF entries[i].key.v = key.v THEN Entry(entries[i].key, val)
            ELSE entries[i]]
    ELSE Append(entries, Entry(key, val))

getServiceName(service) ==
    Join(replaceSpaceRuns(toLowerCase(service.name), "-"))

\* Variant: mysql and mariadb share one case and one image.
getServiceConfig_SharedImage(service) ==
    LET id == Join(toLowerCase(service.service)) IN
    CASE id = "postgresql" ->
           YMap(<< Entry(Lit("image"), YStr(<<Lit("postgres:latest")>>)),
                   Entry(Lit("environment"),
                         YMap(<< Entry(Lit("POSTGRES_USER"), YStr(<<Lit("user")>>)),
                                 Entry(Lit("POSTGRES_PASSWORD"),
                                       YStr(<<Lit("password")>>)),
                                 Entry(Lit("POSTGRES_DB"), YStr(<<Lit("app_db")>>)) >>)),
                   Entry(Lit("ports"), YArr(<< <<Lit("5432:5432")>> >>)) >>)
      [] id = "mongodb" ->
           YMap(<< Entry(Lit("image"), YStr(<<Lit("mongo:latest")>>)),
                   Entry(Lit("ports"), YArr(<< <<Lit("27017:27017")>> >>)) >>)
      [] id = "redis" ->
           YMap(<< Entry(Lit("image"), YStr(<<Lit("redis:latest")>>)),
                   Entry(Lit("ports"), YArr(<< <<Lit("6379:6379")>> >>)) >>)
      [] id \in {"mysql", "mariadb"} ->
           YMap(<< Entry(Lit("image"),
                         YStr(<<Lit("mysql:latest")>>)),
                   Entry(Lit("environment"),
                         YMap(<< Entry(Lit("MYSQL_ROOT_PASSWORD"),
                                       YStr(<<Lit("password")>>)),
                                 Entry(Lit("MYSQL_DATABASE"),
                                       YStr(<<Lit("app_db")>>)) >>)),
                   Entry(Lit("ports"), YArr(<< <<Lit("3306:3306")>> >>)) >>)
      [] id = "rabbitmq" ->
           YMap(<< Entry(Lit("image"), YStr(<<Lit("rabbitmq:3-management")>>)),
                   Entry(Lit("ports"), YArr(<< <<Lit("5672:5672")>>,
                                               <<Lit("15672:15672")>> >>)) >>)
      [] OTHER ->
           YMap(<< Entry(Lit("image"), YStr(<<Lit("alpine:latest")>>)),
                   Entry(Lit("command"), YStr(<<Lit("sleep infinity")>>)) >>)

getServiceConfig(service) ==
    LET id == Join(toLowerCase(service.service)) IN
    CASE id = "postgresql" ->
           YMap(<< Entry(Lit("image"), YStr(<<Lit("postgres:latest")>>)),
                   Entry(Lit("environment"),
                         YMap(<< Entry(Lit("POSTGRES_USER"), YStr(<<Lit("user")>>)),
                                 Entry(Lit("POSTGRES_PASSWORD"),
                                       YStr(<<Lit("password")>>)),
                                 Entry(Lit("POSTGRES_DB"), YStr(<<Lit("app_db")>>)) >>)),
                   Entry(Lit("ports"), YArr(<< <<Lit("5432:5432")>> >>)) >>)
      [] id = "mongodb" ->
           YMap(<< Entry(Lit("image"), YStr(<<Lit("mongo:latest")>>)),
                   Entry(Lit("ports"), YArr(<< <<Lit("27017:27017")>> >>)) >>)
      [] id = "redis" ->
           YMap(<< Entry(Lit("image"), YStr(<<Lit("redis:latest")>>)),
                   Entry(Lit("ports"), YArr(<< <<Lit("6379:6379")>> >>)) >>)
      [] id \in {"mysql", "mariadb"} ->
           YMap(<< Entry(Lit("image"),
                         YStr(<<Lit(IF id = "mysql" THEN "mysql:latest"
                                    ELSE "mariadb:latest")>>)),
                   Entry(Lit("environment"),
                         YMap(<< Entry(Lit("MYSQL_ROOT_PASSWORD"),
                                       YStr(<<Lit("password")>>)),
                                 Entry(Lit("MYSQL_DATABASE"),
                                       YStr(<<Lit("app_db")>>)) >>)),
                   Entry(Lit("ports"), YArr(<< <<Lit("3306:3306")>> >>)) >>)
      [] id = "rabbitmq" ->
           YMap(<< Entry(Lit("image"), YStr(<<Lit("rabbitmq:3-management")>>)),
                   Entry(Lit("ports"), YArr(<< <<Lit("5672:5672")>>,
                                               <<Lit("15672:15672")>> >>)) >>)
      [] OTHER ->
           YMap(<< Entry(Lit("image"), YStr(<<Lit("alpine:latest")>>)),
                   Entry(Lit("command"), YStr(<<Lit("sleep infinity")>>)) >>)

RECURSIVE Spaces(_)
Spaces(n) == IF n = 0 THEN "" ELSE " " \o Spaces(n - 1)

RECURSIVE yamlifyEntries(_, _)
\* yamlify(obj, indent): one pass over Object.entries(obj).
yamlifyEntries(entries, indent) ==
    IF entries = <<>> THEN <<>>
    ELSE LET e == Head(entries)
             spaces == Lit(Spaces(indent))
             this ==
               CASE e.val.t = "map" ->
                      << Data(<<spaces, e.key, Lit(":")>>) >>
                        \o yamlifyEntries(e.val.entries, indent + 2)
                 [] e.val.t = "arr" ->
                      << Data(<<spaces, e.key, Lit(":")>>) >>
                        \o [i \in 1 .. Len(e.val.items) |->
                              Data(<<spaces, Lit("  - \"")>> \o e.val.items[i]
                                     \o <<Lit("\"")>>)]
                 [] OTHER ->
                      << Data(<<spaces, e.key, Lit(": \"")>> \o e.val.segs
                                \o <<Lit("\"")>>) >>
         IN  this \o yamlifyEntries(Tail(entries), indent)

yamlify(obj) == yamlifyEntries(obj.entries, 0)

RECURSIVE addExternalServices(_, _)
\* project.externalServices.forEach: services[getServiceName(s)] = getServiceConfig(s)
addExternalServices(services, externalServices) ==
    IF externalServices = <<>> THEN services
    ELSE LET service == Head(externalServices) IN
         addExternalServices(
             IF service.requiresInfrastructure
             THEN Put(services, Val(getServiceName(service)), getServiceConfig(service))
             ELSE services,
             Tail(externalServices))

dependsOn(externalServices) ==
    LET infra == SelectSeq(externalServices, LAMBDA s : s.requiresInfrastructure)
    IN  [i \in 1 .. Len(infra) |-> <<Val(getServiceName(infra[i]))>>]

composeServices(projectConfig, deploymentConfig) ==
    LET port == Val(Dec(deploymentConfig.port))
        app == YMap(<< Entry(Lit("build"), YStr(<<Lit(".")>>)),
                       Entry(Lit("ports"), YArr(<< <<port, Lit(":"), port>> >>)),
                       Entry(Lit("env_file"), YArr(<< <<Lit(".env")>> >>)),
                       Entry(Lit("depends_on"),
                             YArr(dependsOn(projectConfig.externalServices))) >>)
    IN  addExternalServices(<< Entry(Lit("app"), app) >>,
                            projectConfig.externalServices)

generateDockerCompose(projectConfig, cloudConfig) ==
    IF "externalServices" \notin DOMAIN projectConfig
    THEN Threw("TypeError: Cannot read properties of undefined (reading 'filter')")
    ELSE
    Returned(yamlify(YMap(
        << Entry(Lit("version"), YStr(<<Lit("3.8")>>)),
           Entry(Lit("services"),
                 YMap(composeServices(projectConfig,
                                      cloudConfig.deploymentConfig))) >>)))

---------------------------------------------------------------------------
(* NotificationService *)

\* Webhook URLs, as the characters generateTelegramNotification splits.
SlackWebhook ==
    <<"h", "t", "t", "p", "s", ":", "/", "/", "h", "o", "o", "k", "s", ".",
       "s", "l", "a", "c", "k", ".", "c", "o", "m", "/", "T", "1", "/", "B",
       "2">>
DiscordWebhook ==
    <<"h", "t", "t", "p", "s", ":", "/", "/", "d", "i", "s", "c", "o", "r",
       "d", ".", "c", "o", "m", "/", "a", "p", "i", "/", "w", "e", "b", "h",
       "o", "o", "k", "s", "/", "7", "7", "/", "x">>
TeamsWebhook ==
    <<"h", "t", "t", "p", "s", ":", "/", "/", "o", "u", "t", "l", "o", "o",
       "k", ".", "o", "f", "f", "i", "c", "e", ".", "c", "o", "m", "/", "w",
       "e", "b", "h", "o", "o", "k", "/", "4", "2">>
TelegramWebhook ==
    <<"h", "t", "t", "p", "s", ":", "/", "/", "h", "o", "s", "t", "/", "b",
       "o", "t", "1", "2", "3", ":", "A", "B", "C", "/", "9", "8", "7", "6">>
TelegramWebhookOneSegment ==
    <<"h", "t", "t", "p", "s", ":", "/", "/", "h", "o", "s", "t", "/", "9",
       "8", "7", "6">>
TelegramWebhookNoPath ==
    <<"h", "t", "t", "p", "s", ":", "/", "/", "h", "o", "s", "t">>
TelegramWebhookNoSlash ==
    <<"h", "t", "t", "p">>

RECURSIVE split(_, _)
\* String.split(sep): the pieces between the separators, empty ones kept.
split(chars, sep) ==
    IF \E i \in DOMAIN chars : chars[i] = sep
    THEN LET i == CHOOSE j \in DOMAIN chars :
                     chars[j] = sep /\ \A k \in 1 .. (j - 1) : chars[k] # sep
         IN  <<SubSeq(chars, 1, i - 1)>> \o split(SubSeq(chars, i + 1, Len(chars)), sep)
    ELSE <<chars>>

\* parts[i] inside a template literal, for the 0-based index i: the element,
\* or the text "undefined" when there is none.
Element(parts, i) ==
    IF i + 1 \in DOMAIN parts THEN Join(parts[i + 1]) ELSE "undefined"

generateEmailNotification(email) ==
    << Data(<<Lit("def sendEmailNotification(status, stageName='') {")>>),
       Data(<<Lit("def subject = \"[${status}] Jenkins Pipeline - ${env.JOB_NAME} #${env.BUILD_NUMBER}\"")>>),
       Data(<<Lit("def body = \"\"\"<html>...</html>\"\"\"")>>),
       Data(<<Lit("emailext(")>>),
       Data(<<Lit("subject: subject,")>>),
       Data(<<Lit("body: body,")>>),
       Data(<<Lit("to: '"), Val(email), Lit("',")>>),
       Data(<<Lit("mimeType: 'text/html',")>>),
       Data(<<Lit("attachLog: status != 'SUCCESS'")>>),
       Data(<<Lit(")")>>),
       Data(<<Lit("}")>>) >>

\* The sh step that posts the message to `url`.
PostMessage(url) ==
    << Data(<<Lit("sh \"\"\"")>>),
       Data(<<Lit("curl -X POST '")>> \o url \o <<Lit("' \\")>>),
       Data(<<Lit("-H 'Content-Type: application/json' \\")>>),
       Data(<<Lit("-d '${groovy.json.JsonOutput.toJson(message)}'")>>),
       Data(<<Lit("\"\"\"")>>),
       Data(<<Lit("}")>>) >>

generateSlackNotification(webhook) ==
    << Data(<<Lit("def sendSlackNotification(status, stageName = ''){")>>),
       Data(<<Lit("def color = status == 'SUCCESS' ? 'good' : 'danger'")>>),
       Data(<<Lit("def message = [")>>),
       Data(<<Lit("text: \"Jenkins Pipeline ${status}\",")>>),
       Data(<<Lit("attachments:[[ ... ]]")>>),
       Data(<<Lit("]")>>) >>
      \o PostMessage(<<Val(Join(webhook))>>)

generateDiscordNotification(webhook) ==
    << Data(<<Lit("def sendDiscordNotification(status, stageName = '') {")>>),
       Data(<<Lit("def color = status == 'SUCCESS' ? 3066993 : 15158332")>>),
       Data(<<Lit("def message = [")>>),
       Data(<<Lit("embeds: [[ ... ]]")>>),
       Data(<<Lit("]")>>) >>
      \o PostMessage(<<Val(Join(webhook))>>)

generateTeamsNotification(webhook) ==
    << Data(<<Lit("def sendTeamsNotification(status, stageName = '') {")>>),
       Data(<<Lit("def color = status == 'SUCCESS' ? '00FF00' : 'FF0000'")>>),
       Data(<<Lit("def message = [")>>),
       Data(<<Lit("\"@type\": \"MessageCard\",")>>),
       Data(<<Lit("sections: [[ ... ]],")>>),
       Data(<<Lit("potentialAction: [[ ... ]]")>>),
       Data(<<Lit("]")>>) >>
      \o PostMessage(<<Val(Join(webhook))>>)

generateTelegramNotification(webhook) ==
    LET parts    == split(webhook, "/")
        botToken == Element(parts, Len(parts) - 2)
        chatId   == Element(parts, Len(parts) - 1)
    IN  << Data(<<Lit("def sendTelegramNotification(status, stageName = '') {")>>),
           Data(<<Lit("def emoji = status == 'SUCCESS' ? 'ok' : 'x'")>>),
           Data(<<Lit("def message = \"\"\" ... \"\"\"")>>),
           Data(<<Lit("sh \"\"\"")>>),
           Data(<<Lit("curl -X POST '"), Lit("https://api.telegram.org/bot"),
                  Val(botToken), Lit("/sendMessage"), Lit("' \\")>>),
           Data(<<Lit("-H 'Content-Type: application/json' \\")>>),
           Data(<<Lit("-d '{")>>),
           Data(<<Lit("\"chat_id\": \""), Val(chatId), Lit("\",")>>),
           Data(<<Lit("\"text\": \"${message.replaceAll('\"', '\\\\\"')}\",")>>),
           Data(<<Lit("\"parse_mode\": \"Markdown\",")>>),
           Data(<<Lit("\"disable_web_page_preview\": true")>>),
           Data(<<Lit("}'")>>),
           Data(<<Lit("\"\"\"")>>),
           Data(<<Lit("}")>>) >>

\* Variant: a webhook that is '' counts.
HasWebhook_Present(platform) == "webhook" \in DOMAIN platform

\* !platform.webhook is false: the platform has a webhook and it is not ''.
HasWebhook(platform) ==
    "webhook" \in DOMAIN platform /\ platform.webhook # <<>>

RECURSIVE addPlatforms(_)
\* The loop over config.platforms.
addPlatforms(platforms) ==
    IF platforms = <<>> THEN <<>>
    ELSE LET platform == Head(platforms)
             routine ==
               IF ~HasWebhook(platform) THEN <<>>
               ELSE CASE platform.type = "slack" ->
                           generateSlackNotification(platform.webhook)
                      [] platform.type = "discord" ->
                           generateDiscordNotification(platform.webhook)
                      [] platform.type = "teams" ->
                           generateTeamsNotification(platform.webhook)
                      [] platform.type = "telegram" ->
                           generateTelegramNotification(platform.webhook)
                      [] OTHER -> <<>>
         IN  routine \o addPlatforms(Tail(platforms))

\* Variant: without platforms nothing is emitted.
generateNotificationScript_NeedsPlatforms(config) ==
    Returned(IF "platforms" \in DOMAIN config /\ config.platforms # <<>>
             THEN generateEmailNotification(config.email)
                    \o addPlatforms(config.platforms)
             ELSE <<>>)

\* Variant: the script is stamped with the time of its generation, a clock
\* that every generator call advances.
generateNotificationScript_Stamped(config) ==
    LET RECURSIVE Sum(_)
        Sum(names) ==
            IF names = {} THEN 0
            ELSE LET name == CHOOSE n \in names : TRUE
                 IN  Len(outputs[name]) + Sum(names \ {name})
        now == Sum(DOMAIN outputs)
    IN  Returned(<< Note(<<Lit("generated at "), Val(Dec(now))>>) >>
                   \o generateEmailNotification(config.email)
                   \o (IF "platforms" \in DOMAIN config /\ config.platforms # <<>>
                       THEN addPlatforms(config.platforms)
                       ELSE <<>>))

generateNotificationScript(config) ==
    Returned(generateEmailNotification(config.email)
               \o (IF "platforms" \in DOMAIN config /\ config.platforms # <<>>
                   THEN addPlatforms(config.platforms)
                   ELSE <<>>))

\* The lines of the post section: the block of a build result and its end,
\* a plain call fn('STATUS') and a call in try {fn('STATUS')} catch(e){}.
Block(condition)    == Ln("block", condition, <<>>)
EndBlock(condition) == Ln("end", condition, <<>>)
Call(fn, status)    == Ln("call", fn, <<Lit(status)>>)
Try(fn, status)     == Ln("try", fn, <<Lit(status)>>)

\* Variant: the Slack call is not wrapped.
generatePostStageNotifications_SlackUnguarded ==
    << Data(<<Lit("post {")>>),
       Block("success"),
       Call("sendEmailNotification", "SUCCESS"),
       Call("sendSlackNotification", "SUCCESS"),
       Try("sendDiscordNotification", "SUCCESS"),
       Try("sendTeamsNotification", "SUCCESS"),
       Try("sendTelegramNotification", "SUCCESS"),
       EndBlock("success"),
       Block("failure"),
       Call("sendEmailNotification", "FAILURE"),
       Call("sendSlackNotification", "FAILURE"),
       Try("sendDiscordNotification", "FAILURE"),
       Try("sendTeamsNotification", "FAILURE"),
       Try("sendTelegramNotification", "FAILURE"),
       EndBlock("failure"),
       Block("unstable"),
       Call("sendEmailNotification", "UNSTABLE"),
       Call("sendSlackNotification", "UNSTABLE"),
       Try("sendDiscordNotification", "UNSTABLE"),
       Try("sendTeamsNotification", "UNSTABLE"),
       Try("sendTelegramNotification", "UNSTABLE"),
       EndBlock("unstable"),
       Data(<<Lit("}")>>) >>

\* Variant: the email call is wrapped like the channel calls.
generatePostStageNotifications_EmailGuarded ==
    << Data(<<Lit("post {")>>),
       Block("success"),
       Try("sendEmailNotification", "SUCCESS"),
       Try("sendSlackNotification", "SUCCESS"),
       Try("sendDiscordNotification", "SUCCESS"),
       Try("sendTeamsNotification", "SUCCESS"),
       Try("sendTelegramNotification", "SUCCESS"),
       EndBlock("success"),
       Block("failure"),
       Try("sendEmailNotification", "FAILURE"),
       Try("sendSlackNotification", "FAILURE"),
       Try("sendDiscordNotification", "FAILURE"),
       Try("sendTeamsNotification", "FAILURE"),
       Try("sendTelegramNotification", "FAILURE"),
       EndBlock("failure"),
       Block("unstable"),
       Try("sendEmailNotification", "UNSTABLE"),
       Try("sendSlackNotification", "UNSTABLE"),
       Try("sendDiscordNotification", "UNSTABLE"),
       Try("sendTeamsNotification", "UNSTABLE"),
       Try("sendTelegramNotification", "UNSTABLE"),
       EndBlock("unstable"),
       Data(<<Lit("}")>>) >>

generatePostStageNotifications ==
    << Data(<<Lit("post {")>>),
       Block("success"),
       Call("sendEmailNotification", "SUCCESS"),
       Try("sendSlackNotification", "SUCCESS"),
       Try("sendDiscordNotification", "SUCCESS"),
       Try("sendTeamsNotification", "SUCCESS"),
       Try("sendTelegramNotification", "SUCCESS"),
       EndBlock("success"),
       Block("failure"),
       Call("sendEmailNotification", "FAILURE"),
       Try("sendSlackNotification", "FAILURE"),
       Try("sendDiscordNotification", "FAILURE"),
       Try("sendTeamsNotification", "FAILURE"),
       Try("sendTelegramNotification", "FAILURE"),
       EndBlock("failure"),
       Block("unstable"),
       Call("sendEmailNotification", "UNSTABLE"),
       Try("sendSlackNotification", "UNSTABLE"),
       Try("sendDiscordNotification", "UNSTABLE"),
       Try("sendTeamsNotification", "UNSTABLE"),
       Try("sendTelegramNotification", "UNSTABLE"),
       EndBlock("unstable"),
       Data(<<Lit("}")>>) >>

---------------------------------------------------------------------------
(* The generators applied to a configuration, in any order *)

\* No script is running.
NotRunning ==
    /\ script = <<>>
    /\ ip = 0
    /\ shell = [n \in {} |-> ""]
    /\ ran = <<>>
    /\ stateFile = <<>>
    /\ present = FALSE

\* run has not been called.
NotStarted ==
    /\ step = 0
    /\ files = {}
    /\ outcome = "idle"

\* No notification script is asked for and no post section runs.
NotNotifying ==
    /\ notification = [email |-> "", platforms |-> <<>>]
    /\ notify = NotCalled
    /\ post = [status |-> "idle"]

\* No port is being validated.
NotValidating ==
    /\ input = 0
    /\ valid = NotCalled

\* The wizard is not running.
NotCollecting ==
    /\ prompted = <<>>
    /\ collected = NotCalled

\* run is not settling its configuration.
NotChoosing ==
    /\ presetFile = [exists |-> FALSE]
    /\ source = [pc |-> "idle"]

\* Nothing but the generators, the emitted scripts and the steps of run is
\* at work.
AtRest ==
    /\ NotValidating
    /\ NotCollecting
    /\ NotChoosing
    /\ credentialsEnv = NotCalled
    /\ outputs = <<>>

Init ==
    /\ \E sample \in Samples, provider \in ProviderTags,
          credentials \in Credentials, o \in Options :
            /\ cloud = CloudConfig(provider, credentials, sample, o)
            /\ artifact = sample.artifact
    /\ project \in GenProjects
    /\ deployment = NotCalled
    /\ terraform = NotCalled
    /\ compose = NotCalled
    /\ NotRunning
    /\ NotStarted
    /\ NotNotifying
    /\ AtRest

GenerateDeploymentScript ==
    /\ UNCHANGED restVars
    /\ deployment.status = "none"
    /\ deployment' = generateDeploymentScript(cloud, artifact)
    /\ UNCHANGED <<cloud, artifact, project, terraform, compose>>
    /\ UNCHANGED <<execVars, runVars, noteVars>>

GenerateTerraformConfig ==
    /\ UNCHANGED restVars
    /\ terraform.status = "none"
    /\ terraform' = generateTerraformConfig(cloud, artifact)
    /\ UNCHANGED <<cloud, artifact, project, deployment, compose>>
    /\ UNCHANGED <<execVars, runVars, noteVars>>

GenerateDockerCompose ==
    /\ UNCHANGED restVars
    /\ compose.status = "none"
    /\ compose' = generateDockerCompose(project, cloud)
    /\ UNCHANGED <<cloud, artifact, project, deployment, terraform>>
    /\ UNCHANGED <<execVars, runVars, noteVars>>

Next ==
    \/ GenerateDeploymentScript
    \/ GenerateTerraformConfig
    \/ GenerateDockerCompose

Spec == Init /\ [][Next]_vars

---------------------------------------------------------------------------
(* The deployment script run by a shell, line by line *)

\* The text a reference to the variable `name` expands to: its value once
\* the script has assigned it, the reference itself while only the
\* pipeline's environment can tell.
Expand(sh, name) ==
    IF name \in DOMAIN sh THEN sh[name] ELSE "${" \o name \o "}"

RECURSIVE Render(_, _)
Render(sh, segs) ==
    IF segs = <<>> THEN ""
    ELSE (IF Head(segs).k = "env" THEN Expand(sh, Head(segs).v) ELSE Head(segs).v)
           \o Render(sh, Tail(segs))

\* The test of an if or elif line.
Holds(sh, line) ==
    CASE line.var = "-z" -> Render(sh, <<line.segs[1]>>) = ""
      [] line.var = "==" -> Render(sh, <<line.segs[1]>>) = Render(sh, <<line.segs[2]>>)
      [] line.var = "!=" -> Render(sh, <<line.segs[1]>>) # Render(sh, <<line.segs[2]>>)

\* From line i on, the first elif, else or fi of the enclosing conditional.
RECURSIVE SeekBranch(_, _, _)
SeekBranch(text, i, depth) ==
    IF i > Len(text) THEN i
    ELSE CASE text[i].op = "if" -> SeekBranch(text, i + 1, depth + 1)
           [] text[i].op = "fi" ->
                IF depth = 0 THEN i ELSE SeekBranch(text, i + 1, depth - 1)
           [] text[i].op \in {"elif", "else"} ->
                IF depth = 0 THEN i ELSE SeekBranch(text, i + 1, depth)
           [] OTHER -> SeekBranch(text, i + 1, depth)

\* From line i on, the fi of the enclosing conditional.
RECURSIVE SeekFi(_, _, _)
SeekFi(text, i, depth) ==
    IF i > Len(text) THEN i
    ELSE CASE text[i].op = "if" -> SeekFi(text, i + 1, depth + 1)
           [] text[i].op = "fi" ->
                IF depth = 0 THEN i ELSE SeekFi(text, i + 1, depth - 1)
           [] OTHER -> SeekFi(text, i + 1, depth)

\* The line that runs after the test on line i (an if or an elif): the first
\* line of the first branch whose test holds, of the else branch, or the line
\* after fi.
RECURSIVE Branch(_, _, _)
Branch(text, sh, i) ==
    IF Holds(sh, text[i]) THEN i + 1
    ELSE LET j == SeekBranch(text, i + 1, 0) IN
         IF j <= Len(text) /\ text[j].op = "elif" THEN Branch(text, sh, j) ELSE j + 1

\* The id of the app named after the artifact, and the id of another app of
\* the same DigitalOcean account.
TargetAppId == "4f1a"
OtherAppId == "9c2e"

\* What the command of a `set` line prints: the AWS probe answers by the
\* state of the target; `doctl apps list ... | head -n 1` prints the id of
\* the first app of the account, the target or another one, or nothing
\* when the account has no app; doctl prints no ingress for an empty app id;
\* every other command prints some text.
CommandOutputs(sh, line, exists) ==
    CASE line.var = "SERVICE_EXISTS" ->
           IF exists THEN {"ACTIVE"} ELSE {"MISSING", "None"}
      [] line.var = "APP_ID" ->
           {IF exists THEN TargetAppId ELSE "", OtherAppId}
      [] line.var = "DEPLOYED_URL" /\ line.segs[1] = Lit("doctl apps get ") ->
           IF Render(sh, <<line.segs[2]>>) = "" THEN {""}
           ELSE {"https://app.ondigitalocean.app"}
      [] OTHER -> {"(" \o line.var \o ")"}

\* The configurations whose scripts are run.
RunOptions ==
    { o \in Options : ~o.autoScaling /\ o.maxInstances = NoNum }

InitExec ==
    /\ \E sample \in Samples, provider \in SupportedProviders,
          credentials \in Credentials, o \in RunOptions :
            /\ cloud = CloudConfig(provider, credentials, sample, o)
            /\ artifact = sample.artifact
    /\ project \in GenProjects
    /\ deployment = generateDeploymentScript(cloud, artifact)
    /\ terraform = NotCalled
    /\ compose = NotCalled
    /\ script = deployment.text
    /\ ip = 1
    /\ shell = [n \in {} |-> ""]
    /\ ran = <<>>
    /\ stateFile = <<>>
    /\ present \in BOOLEAN
    /\ NotStarted
    /\ NotNotifying
    /\ AtRest

Running == ip \in DOMAIN script

Finished == script # <<>> /\ ip > Len(script)

\* A comment, an echo or a line of a here-document.
ExecPlain ==
    /\ UNCHANGED restVars
    /\ Running
    /\ script[ip].op \in {"note", "data"}
    /\ ip' = ip + 1
    /\ UNCHANGED <<genVars, runVars, noteVars, script, shell, ran, stateFile, present>>

ExecRun ==
    /\ UNCHANGED restVars
    /\ Running
    /\ script[ip].op = "run"
    /\ ran' = Append(ran, ip)
    /\ ip' = ip + 1
    /\ UNCHANGED <<genVars, runVars, noteVars, script, shell, stateFile, present>>

ExecSet ==
    /\ UNCHANGED restVars
    /\ Running
    /\ script[ip].op = "set"
    /\ \E out \in CommandOutputs(shell, script[ip], present) :
           shell' = (script[ip].var :> out) @@ shell
    /\ ran' = Append(ran, ip)
    /\ ip' = ip + 1
    /\ UNCHANGED <<genVars, runVars, noteVars, script, stateFile, present>>

ExecExport ==
    /\ UNCHANGED restVars
    /\ Running
    /\ script[ip].op = "export"
    /\ shell' = (script[ip].var :> Render(shell, script[ip].segs)) @@ shell
    /\ ip' = ip + 1
    /\ UNCHANGED <<genVars, runVars, noteVars, script, ran, stateFile, present>>

ExecAppend ==
    /\ UNCHANGED restVars
    /\ Running
    /\ script[ip].op = "append"
    /\ script[ip].var = "deployment.env"
    /\ stateFile' = Append(stateFile, Render(shell, script[ip].segs))
    /\ ip' = ip + 1
    /\ UNCHANGED <<genVars, runVars, noteVars, script, shell, ran, present>>

ExecIf ==
    /\ UNCHANGED restVars
    /\ Running
    /\ script[ip].op = "if"
    /\ ip' = Branch(script, shell, ip)
    /\ UNCHANGED <<genVars, runVars, noteVars, script, shell, ran, stateFile, present>>

\* An elif or else reached from the branch above it: the conditional is over.
ExecEndBranch ==
    /\ UNCHANGED restVars
    /\ Running
    /\ script[ip].op \in {"elif", "else"}
    /\ ip' = SeekFi(script, ip + 1, 0) + 1
    /\ UNCHANGED <<genVars, runVars, noteVars, script, shell, ran, stateFile, present>>

ExecFi ==
    /\ UNCHANGED restVars
    /\ Running
    /\ script[ip].op = "fi"
    /\ ip' = ip + 1
    /\ UNCHANGED <<genVars, runVars, noteVars, script, shell, ran, stateFile, present>>

NextExec ==
    \/ ExecPlain
    \/ ExecRun
    \/ ExecSet
    \/ ExecExport
    \/ ExecAppend
    \/ ExecIf
    \/ ExecEndBranch
    \/ ExecFi

SpecExec == InitExec /\ [][NextExec]_vars

---------------------------------------------------------------------------
(* CICDGeneratorService.run and writeFiles *)

Step(name)     == [kind |-> "step", name |-> name]
Generate(name) == [kind |-> "generate", name |-> name]
Write(file)    == [kind |-> "write", name |-> file]

\* Variant: the dashboard is generated when the Jenkinsfile is on disk.
RunSteps_LateDashboard ==
    << Step("readPackageJson"),
       Step("collectAllConfigurations"),
       Generate("generateJenkinsfile"),
       Generate("generateCredentialsSetupGuide"),
       Generate("generateReadme"),
       Generate("generateEnvFileTemplate"),
       Generate("generateTerraformConfig"),
       Generate("generateDockerCompose"),
       Step("ensureDir"),
       Write("Jenkinsfile"),
       Generate("generateDeploymentDashboard"),
       Write("docker-compose.yml"),
       Write("CREDENTIALS_SETUP.md"),
       Write("README.md"),
       Write(".env.template"),
       Write("main.tf"),
       Write("dashboard.html"),
       Write("config.encrypted.json"),
       Step("updateRootGitignore"),
       Step("displaySummary") >>

RunSteps ==
    << Step("readPackageJson"),
       Step("collectAllConfigurations"),
       Generate("generateJenkinsfile"),
       Generate("generateCredentialsSetupGuide"),
       Generate("generateReadme"),
       Generate("generateEnvFileTemplate"),
       Generate("generateTerraformConfig"),
       Generate("generateDeploymentDashboard"),
       Generate("generateDockerCompose"),
       Step("ensureDir"),
       Write("Jenkinsfile"),
       Write("docker-compose.yml"),
       Write("CREDENTIALS_SETUP.md"),
       Write("README.md"),
       Write(".env.template"),
       Write("main.tf"),
       Write("dashboard.html"),
       Write("config.encrypted.json"),
       Step("updateRootGitignore"),
       Step("displaySummary") >>

\* The generators of JenkinsFileService, EnvironmentService and
\* DashboardService, which may reject a configuration.
RejectingGenerators ==
    {"generateJenkinsfile", "generateCredentialsSetupGuide", "generateReadme",
     "generateEnvFileTemplate", "generateDeploymentDashboard"}

\* The configurations run works on, a loaded preset among them: the project
\* may lack externalServices and the provider may be any tag.
RunProjects ==
    { [hasDockerfile |-> d, externalServices |-> s] :
        d \in BOOLEAN, s \in {<<>>, <<Postgres, Stripe>>} }
      \cup { [hasDockerfile |-> d] : d \in BOOLEAN }

HasExternalServices(projectConfig) ==
    /\ "externalServices" \in DOMAIN projectConfig
    /\ projectConfig.externalServices # <<>>

\* Variant: the compose generator is called whatever hasDockerfile says.
Skipped_EnvTemplateOnly(name) ==
    name = "generateEnvFileTemplate" /\ ~HasExternalServices(project)

\* The generator calls run leaves out for this configuration.
Skipped(name) ==
    \/ name = "generateEnvFileTemplate" /\ ~HasExternalServices(project)
    \/ name = "generateDockerCompose" /\ ~project.hasDockerfile

InitRun ==
    /\ \E sample \in Samples, provider \in ProviderTags,
          o \in { x \in RunOptions : ~x.useLoadBalancer /\ x.loadBalancerUrl = "" } :
            /\ cloud = CloudConfig(provider, [useOIDC |-> FALSE, oidcRoleArn |-> ""],
                                   sample, o)
            /\ artifact = sample.artifact
    /\ project \in RunProjects
    /\ deployment = NotCalled
    /\ terraform = NotCalled
    /\ compose = NotCalled
    /\ NotRunning
    /\ NotNotifying
    /\ step = 1
    /\ files = {}
    /\ outcome = "running"
    /\ AtRest

AtStep(kind) ==
    /\ outcome = "running"
    /\ step \in DOMAIN RunSteps
    /\ RunSteps[step].kind = kind

RunStep ==
    /\ UNCHANGED restVars
    /\ AtStep("step")
    /\ step' = step + 1
    /\ UNCHANGED <<genVars, execVars, noteVars, files, outcome>>

\* readPackageJson finds no package.json: run rethrows.
RunValidationFails ==
    /\ UNCHANGED restVars
    /\ AtStep("step")
    /\ RunSteps[step].name = "readPackageJson"
    /\ outcome' = "failed"
    /\ UNCHANGED <<genVars, execVars, noteVars, step, files>>

\* A generator call: it returns and run goes on, or throws and run rethrows.
RunGenerate ==
    /\ UNCHANGED restVars
    /\ AtStep("generate")
    /\ LET name == RunSteps[step].name
           result ==
             CASE Skipped(name) -> NotCalled
               [] name = "generateJenkinsfile" ->
                    generateDeploymentScript(cloud, artifact)
               [] name = "generateTerraformConfig" ->
                    generateTerraformConfig(cloud, artifact)
               [] name = "generateDockerCompose" /\ ~Skipped(name) ->
                    generateDockerCompose(project, cloud)
               [] OTHER -> Returned(<<>>)
       IN  /\ deployment' = IF name = "generateJenkinsfile" THEN result ELSE deployment
           /\ terraform' = IF name = "generateTerraformConfig" THEN result ELSE terraform
           /\ compose' = IF name = "generateDockerCompose" THEN result ELSE compose
           /\ IF result.status = "threw"
              THEN outcome' = "failed" /\ step' = step
              ELSE outcome' = outcome /\ step' = step + 1
    /\ UNCHANGED <<cloud, artifact, project, execVars, noteVars, files>>

RunGenerateThrows ==
    /\ UNCHANGED restVars
    /\ AtStep("generate")
    /\ RunSteps[step].name \in RejectingGenerators
    /\ ~Skipped(RunSteps[step].name)
    /\ outcome' = "failed"
    /\ UNCHANGED <<genVars, execVars, noteVars, step, files>>

\* A write of writeFiles; docker-compose.yml is written when there is content.
RunWrite ==
    /\ UNCHANGED restVars
    /\ AtStep("write")
    /\ files' = IF RunSteps[step].name = "docker-compose.yml" /\ compose.text = <<>>
                THEN files
                ELSE files \cup {RunSteps[step].name}
    /\ step' = step + 1
    /\ UNCHANGED <<genVars, execVars, noteVars, outcome>>

RunReturns ==
    /\ UNCHANGED restVars
    /\ outcome = "running"
    /\ step = Len(RunSteps) + 1
    /\ outcome' = "done"
    /\ UNCHANGED <<genVars, execVars, noteVars, step, files>>

NextRun ==
    \/ RunStep
    \/ RunValidationFails
    \/ RunGenerate
    \/ RunGenerateThrows
    \/ RunWrite
    \/ RunReturns

SpecRun == InitRun /\ [][NextRun]_vars

---------------------------------------------------------------------------
(* The notification script generated, and the post section run on it *)

Emails == {"ops@example.com", "dev@example.com"}

\* The entries of config.platforms: a webhook, '' or none, per channel; for
\* telegram also webhooks with fewer than two path segments, which the one
\* check of the wizard (the text starts with http) lets through.
PlatformEntries ==
    { [type |-> "slack", webhook |-> w] : w \in {SlackWebhook, <<>>} }
      \cup { [type |-> "discord", webhook |-> w] : w \in {DiscordWebhook, <<>>} }
      \cup { [type |-> "teams", webhook |-> w] : w \in {TeamsWebhook, <<>>} }
      \cup { [type |-> "telegram", webhook |-> w] :
               w \in {TelegramWebhook, TelegramWebhookOneSegment,
                      TelegramWebhookNoPath, TelegramWebhookNoSlash, <<>>} }
      \cup { [type |-> t] : t \in {"slack", "telegram"} }

MaxPlatforms == 2

PlatformLists ==
    UNION { [1 .. n -> PlatformEntries] : n \in 0 .. MaxPlatforms }

NotificationConfigs ==
    { [email |-> e, platforms |-> ps] : e \in Emails, ps \in PlatformLists }
      \cup { [email |-> e] : e \in Emails }

\* No deployment is being generated.
NotGenerating ==
    /\ cloud = [provider |-> ""]
    /\ artifact = ""
    /\ project = [externalServices |-> <<>>]
    /\ deployment = NotCalled
    /\ terraform = NotCalled
    /\ compose = NotCalled

InitNotify ==
    /\ notification \in NotificationConfigs
    /\ notify = NotCalled
    /\ post = [status |-> "idle"]
    /\ NotGenerating
    /\ NotRunning
    /\ NotStarted
    /\ AtRest

GenerateNotificationScript ==
    /\ UNCHANGED restVars
    /\ notify.status = "none"
    /\ notify' = generateNotificationScript(notification)
    /\ UNCHANGED <<genVars, execVars, runVars, notification, post>>

\* The lines of the script that open a routine named fn.
Definitions(text, fn) ==
    { l \in DOMAIN text :
        \E rest \in {"(status, stageName='') {", "(status, stageName = ''){",
                     "(status, stageName = '') {"} :
            text[l].segs = <<Lit("def " \o fn \o rest)>> }

Defines(text, fn) == Definitions(text, fn) # {}

PostSection == generatePostStageNotifications

\* The build ends with a result and the block for it starts.
PostBegin ==
    /\ UNCHANGED restVars
    /\ notify.status = "returned"
    /\ post.status = "idle"
    /\ \E l \in DOMAIN PostSection :
          /\ PostSection[l].op = "block"
          /\ post' = [status |-> "running", result |-> PostSection[l].var,
                      pc |-> l + 1, invoked |-> {}, failed |-> {}]
    /\ UNCHANGED <<genVars, execVars, runVars, notification, notify>>

AtCall ==
    /\ post.status = "running"
    /\ PostSection[post.pc].op \in {"call", "try"}

PostCallReturns ==
    /\ UNCHANGED restVars
    /\ AtCall
    /\ Defines(notify.text, PostSection[post.pc].var)
    /\ post' = [post EXCEPT !.pc = @ + 1,
                            !.invoked = @ \cup {PostSection[post.pc].var}]
    /\ UNCHANGED <<genVars, execVars, runVars, notification, notify>>

\* The call throws (there is no such routine, or its step fails): catch(e){}
\* swallows it, a plain call ends the block.
PostCallThrows ==
    /\ UNCHANGED restVars
    /\ AtCall
    /\ LET line == PostSection[post.pc] IN
       post' = [post EXCEPT !.pc = IF line.op = "try" THEN @ + 1 ELSE @,
                            !.status = IF line.op = "try" THEN @ ELSE "aborted",
                            !.invoked = @ \cup {line.var},
                            !.failed = @ \cup {line.var}]
    /\ UNCHANGED <<genVars, execVars, runVars, notification, notify>>

PostEnd ==
    /\ UNCHANGED restVars
    /\ post.status = "running"
    /\ PostSection[post.pc].op = "end"
    /\ post' = [post EXCEPT !.status = "done"]
    /\ UNCHANGED <<genVars, execVars, runVars, notification, notify>>

NextNotify ==
    \/ GenerateNotificationScript
    \/ PostBegin
    \/ PostCallReturns
    \/ PostCallThrows
    \/ PostEnd

SpecNotify == InitNotify /\ [][NextNotify]_vars

---------------------------------------------------------------------------
(* The compose manifest generated for a project's external services *)

InitCompose ==
    /\ \E sample \in Samples, provider \in SupportedProviders, o \in RunOptions :
          /\ ~o.useLoadBalancer
          /\ o.loadBalancerUrl = ""
          /\ o.deploymentStrategy = "rolling"
          /\ o.minInstances = NoNum
          /\ cloud = CloudConfig(provider, [useOIDC |-> FALSE, oidcRoleArn |-> ""],
                                 sample, o)
          /\ artifact = sample.artifact
    /\ project \in ComposeProjects
    /\ deployment = NotCalled
    /\ terraform = NotCalled
    /\ compose = NotCalled
    /\ NotRunning
    /\ NotStarted
    /\ NotNotifying
    /\ AtRest

NextCompose == GenerateDockerCompose

SpecCompose == InitCompose /\ [][NextCompose]_vars

---------------------------------------------------------------------------
(* CloudProviderService.generateCredentialsEnvironmentVariables *)

\* A line of the environment block: `var` bound to the Jenkins credential `id`.
Credential(var, id) ==
    Ln("data", var, <<Lit(var), Lit(" = credentials('"), Lit(id), Lit("')")>>)

generateCredentialsEnvironmentVariables(config) ==
    LET credentials == config.credentials
        open == Data(<<Lit("environment {")>>)
        close == Data(<<Lit("}")>>)
        baseEnv == << Credential("AZURE_SUBSCRIPTION_ID", "azure-subscription-id"),
                      Credential("AZURE_TENANT_ID", "azure-tenant-id"),
                      Credential("AZURE_CLIENT_ID", "azure-client-id") >>
    IN  CASE config.provider = "aws" ->
               IF credentials.useOIDC
               THEN Returned(<< open,
                                Credential("AWS_WEB_IDENTITY_TOKEN", "aws-oidc-token"),
                                close >>)
               ELSE Returned(<< open,
                                Credential("AWS_ACCESS_KEY_ID", "aws-access-key-id"),
                                Credential("AWS_SECRET_ACCESS_KEY",
                                           "aws-secret-access-key"),
                                Ln("data", "AWS_REGION",
                                   <<Lit("AWS_REGION = '"),
                                     Val(IF "region" \in DOMAIN credentials
                                         THEN credentials.region ELSE "undefined"),
                                     Lit("'")>>),
                                close >>)
          [] config.provider = "azure" ->
               IF credentials.useOIDC
               THEN Returned(<<open>> \o baseEnv
                               \o << Credential("AZURE_FEDERATED_TOKEN",
                                                "azure-federated-token"),
                                     close >>)
               ELSE Returned(<<open>> \o baseEnv
                               \o << Credential("AZURE_CLIENT_SECRET",
                                                "azure-client-secret"),
                                     close >>)
          [] config.provider = "gcp" ->
               IF credentials.useOIDC
               THEN Returned(<< open,
                                Credential("GCP_PROJECT_ID", "gcp-project-id"),
                                Credential("GCP_OIDC_TOKEN", "gcp-oidc-token"),
                                close >>)
               ELSE Returned(<< open,
                                Credential("GCP_PROJECT_ID", "gcp-project-id"),
                                Credential("GCP_KEY_FILE", "gcp-key-file"),
                                close >>)
          [] config.provider = "digitalocean" ->
               Returned(<< open, Credential("DO_API_TOKEN", "do-api-token"), close >>)
          [] OTHER -> Returned(<<>>)

\* The configurations the credentials block and the deployment script are
\* both generated for.
InitCredentials ==
    /\ \E sample \in Samples, provider \in ProviderTags,
          credentials \in Credentials, o \in RunOptions :
            /\ o.deploymentStrategy = "rolling"
            /\ cloud = CloudConfig(provider, credentials, sample, o)
            /\ artifact = sample.artifact
    /\ project \in GenProjects
    /\ deployment = NotCalled
    /\ terraform = NotCalled
    /\ compose = NotCalled
    /\ credentialsEnv = NotCalled
    /\ NotValidating
    /\ NotCollecting
    /\ NotChoosing
    /\ outputs = <<>>
    /\ NotRunning
    /\ NotStarted
    /\ NotNotifying

GenerateCredentialsEnvironmentVariables ==
    /\ credentialsEnv.status = "none"
    /\ credentialsEnv' = generateCredentialsEnvironmentVariables(cloud)
    /\ UNCHANGED <<genVars, execVars, runVars, noteVars>>
    /\ UNCHANGED <<portVars, wizardVars, sourceVars, outputs>>

NextCredentials ==
    \/ GenerateDeploymentScript
    \/ GenerateCredentialsEnvironmentVariables

SpecCredentials == InitCredentials /\ [][NextCredentials]_vars

---------------------------------------------------------------------------
(* PromptService.collectAllConfigurations *)

EnvVariable(key, description) == [key |-> key, description |-> description]

\* The services the wizard can be answered with: the defaults of a database
\* and of a cache, a cache given the database's variable name, a queue, a
\* custom service with no variable, one that names a variable twice, one
\* with an empty name and one with the name __proto__.
PromptedServices ==
    { [name |-> "postgresql-main",
       envVariables |-> << EnvVariable("DB_HOST", "Database host"),
                           EnvVariable("DB_PORT", "Database port") >>],
      [name |-> "redis-cache",
       envVariables |-> << EnvVariable("REDIS_HOST", "Cache host"),
                           EnvVariable("REDIS_PORT", "Cache port") >>],
      [name |-> "memcached",
       envVariables |-> << EnvVariable("DB_HOST", "Cache host") >>],
      [name |-> "rabbitmq",
       envVariables |-> << EnvVariable("QUEUE_URL", "Queue connection URL") >>],
      [name |-> "bare", envVariables |-> <<>>],
      [name |-> "twice",
       envVariables |-> << EnvVariable("API_KEY", "first"),
                           EnvVariable("API_KEY", "second") >>],
      [name |-> "unnamed", envVariables |-> << EnvVariable("", "") >>],
      [name |-> "proto",
       envVariables |-> << EnvVariable("__proto__", "Prototype") >>] }

\* obj[key] = value on an object created by {}, for a string value: an own
\* property is set, in insertion order; the key __proto__ names the accessor
\* of Object.prototype, whose setter ignores a value that is not an object.
SetProperty(obj, key, value) ==
    IF key = "__proto__" THEN obj
    ELSE IF \E i \in DOMAIN obj : obj[i].key = key
         THEN [i \in DOMAIN obj |->
                 IF obj[i].key = key THEN [key |-> key, value |-> value] ELSE obj[i]]
         ELSE Append(obj, [key |-> key, value |-> value])

RECURSIVE addEnvVariables(_, _)
\* for (const envVar of service.envVariables) envVars[envVar.key] = envVar.description
addEnvVariables(envVars, envVariables) ==
    IF envVariables = <<>> THEN envVars
    ELSE addEnvVariables(
             SetProperty(envVars, Head(envVariables).key, Head(envVariables).description),
             Tail(envVariables))

RECURSIVE consolidateFrom(_, _)
consolidateFrom(envVars, services) ==
    IF services = <<>> THEN envVars
    ELSE consolidateFrom(addEnvVariables(envVars, Head(services).envVariables),
                         Tail(services))

\* projectConfig is not read.
consolidateEnvironmentVariables(projectConfig, externalServices) ==
    consolidateFrom(<<>>, externalServices)

collectAllConfigurations(services) ==
    LET allEnvVars ==
          consolidateEnvironmentVariables([externalServices |-> services], services)
    IN
    [status |-> "returned",
     project |-> [externalServices |-> services],
     cloud |-> [deploymentConfig |-> [environmentVariables |-> allEnvVars]],
     jenkinsConfig |-> [environmentVariables |-> allEnvVars]]

InitCollect ==
    /\ prompted = <<>>
    /\ collected = NotCalled
    /\ NotValidating
    /\ NotChoosing
    /\ credentialsEnv = NotCalled
    /\ outputs = <<>>
    /\ NotGenerating
    /\ NotRunning
    /\ NotStarted
    /\ NotNotifying

\* collectExternalServices: one more service is configured.
CollectExternalService ==
    /\ collected.status = "none"
    /\ Len(prompted) < MaxServices
    /\ \E service \in PromptedServices : prompted' = Append(prompted, service)
    /\ UNCHANGED <<genVars, execVars, runVars, noteVars>>
    /\ UNCHANGED <<portVars, collected, sourceVars, credentialsEnv, outputs>>

\* No more services: the other prompts are answered and the configuration
\* is put together.
CollectAllConfigurations ==
    /\ collected.status = "none"
    /\ collected' = collectAllConfigurations(prompted)
    /\ UNCHANGED <<genVars, execVars, runVars, noteVars>>
    /\ UNCHANGED <<portVars, prompted, sourceVars, credentialsEnv, outputs>>

NextCollect ==
    \/ CollectExternalService
    \/ CollectAllConfigurations

SpecCollect == InitCollect /\ [][NextCollect]_vars

---------------------------------------------------------------------------
(* CICDGeneratorService.run: where the configuration comes from *)

\* A value of the variable `config` of run: undefined, what JSON.parse gives
\* for the text null, or a configuration object, told apart by its project
\* name and its provider.
Undefined == [truthy |-> FALSE, name |-> "undefined", provider |-> ""]
Null == [truthy |-> FALSE, name |-> "null", provider |-> ""]
ConfigObject(name, provider) == [truthy |-> TRUE, name |-> name, provider |-> provider]

ConfigObjects ==
    { ConfigObject(sample.artifact, provider) :
        sample \in Samples, provider \in SupportedProviders }

\* jenkins-generator-config.json before the run: absent, a configuration
\* saved by an earlier run, the text null, or text that is not JSON.
PresetFiles ==
    {[exists |-> FALSE]}
      \cup { [exists |-> TRUE, parses |-> TRUE, json |-> v] :
               v \in ConfigObjects \cup {Null} }
      \cup {[exists |-> TRUE, parses |-> FALSE, json |-> Undefined]}

InitSource ==
    /\ presetFile \in PresetFiles
    /\ source = [pc |-> "idle"]
    /\ NotValidating
    /\ NotCollecting
    /\ credentialsEnv = NotCalled
    /\ outputs = <<>>
    /\ NotGenerating
    /\ NotRunning
    /\ NotStarted
    /\ NotNotifying

\* run starts: readPackageJson returns or throws.
SourceReadPackageJson ==
    /\ source.pc = "idle"
    /\ \/ source' = [pc |-> "pathExists", config |-> Undefined, loaded |-> FALSE,
                     wizard |-> 0, written |-> FALSE]
       \/ source' = [pc |-> "failed", config |-> Undefined, loaded |-> FALSE,
                     wizard |-> 0, written |-> FALSE]
    /\ UNCHANGED <<genVars, execVars, runVars, noteVars>>
    /\ UNCHANGED <<portVars, wizardVars, presetFile, credentialsEnv, outputs>>

\* if (await fs.pathExists(configPath)), and the answer to usePreset.
SourcePathExists ==
    /\ source.pc = "pathExists"
    /\ IF presetFile.exists
       THEN \E usePreset \in BOOLEAN :
               source' = [source EXCEPT !.pc = IF usePreset THEN "readJSON"
                                               ELSE "checkConfig"]
       ELSE source' = [source EXCEPT !.pc = "checkConfig"]
    /\ UNCHANGED <<genVars, execVars, runVars, noteVars>>
    /\ UNCHANGED <<portVars, wizardVars, presetFile, credentialsEnv, outputs>>

\* config = await fs.readJSON(configPath)
SourceReadJSON ==
    /\ source.pc = "readJSON"
    /\ IF presetFile.parses
       THEN source' = [source EXCEPT !.pc = "checkConfig",
                                     !.config = presetFile.json,
                                     !.loaded = TRUE]
       ELSE source' = [source EXCEPT !.pc = "failed"]
    /\ UNCHANGED <<genVars, execVars, runVars, noteVars>>
    /\ UNCHANGED <<portVars, wizardVars, presetFile, credentialsEnv, outputs>>

\* if (!config): the wizard is asked.
SourceCollect ==
    /\ source.pc = "checkConfig"
    /\ ~source.config.truthy
    /\ \E answers \in ConfigObjects :
          source' = [source EXCEPT !.pc = "savePreset",
                                   !.config = answers,
                                   !.wizard = @ + 1]
    /\ UNCHANGED <<genVars, execVars, runVars, noteVars>>
    /\ UNCHANGED <<portVars, wizardVars, presetFile, credentialsEnv, outputs>>

\* The answer to savePreset, and fs.writeJSON(configPath, config).
SourceSavePreset ==
    /\ source.pc = "savePreset"
    /\ \E savePreset \in BOOLEAN :
          IF savePreset
          THEN /\ presetFile' = [exists |-> TRUE, parses |-> TRUE,
                                 json |-> source.config]
               /\ source' = [source EXCEPT !.pc = "generate", !.written = TRUE]
          ELSE /\ presetFile' = presetFile
               /\ source' = [source EXCEPT !.pc = "generate"]
    /\ UNCHANGED <<genVars, execVars, runVars, noteVars>>
    /\ UNCHANGED <<portVars, wizardVars, credentialsEnv, outputs>>

\* config is set: the wizard is passed over.
SourceKeep ==
    /\ source.pc = "checkConfig"
    /\ source.config.truthy
    /\ source' = [source EXCEPT !.pc = "generate"]
    /\ UNCHANGED <<genVars, execVars, runVars, noteVars>>
    /\ UNCHANGED <<portVars, wizardVars, presetFile, credentialsEnv, outputs>>

\* generateJenkinsfile(config): generation starts.
SourceGenerate ==
    /\ source.pc = "generate"
    /\ source' = [source EXCEPT !.pc = "generating"]
    /\ UNCHANGED <<genVars, execVars, runVars, noteVars>>
    /\ UNCHANGED <<portVars, wizardVars, presetFile, credentialsEnv, outputs>>

NextSource ==
    \/ SourceReadPackageJson
    \/ SourcePathExists
    \/ SourceReadJSON
    \/ SourceCollect
    \/ SourceSavePreset
    \/ SourceKeep
    \/ SourceGenerate

SpecSource == InitSource /\ [][NextSource]_vars

---------------------------------------------------------------------------
(* The generators called again and again on one configuration *)

Generators ==
    {"generateDeploymentScript", "generateTerraformConfig", "generateDockerCompose",
     "generateNotificationScript", "generatePostStageNotifications"}

\* What a call of the generator returns or throws now.
Output(generator) ==
    CASE generator = "generateDeploymentScript" ->
           generateDeploymentScript(cloud, artifact)
      [] generator = "generateTerraformConfig" ->
           generateTerraformConfig(cloud, artifact)
      [] generator = "generateDockerCompose" ->
           generateDockerCompose(project, cloud)
      [] generator = "generateNotificationScript" ->
           generateNotificationScript(notification)
      [] generator = "generatePostStageNotifications" ->
           Returned(generatePostStageNotifications)

InitRepeat ==
    /\ \E sample \in Samples, provider \in ProviderTags, o \in RunOptions :
          /\ ~o.useLoadBalancer
          /\ o.loadBalancerUrl = ""
          /\ o.deploymentStrategy = "rolling"
          /\ o.minInstances = NoNum
          /\ cloud = CloudConfig(provider, [useOIDC |-> FALSE, oidcRoleArn |-> ""],
                                 sample, o)
          /\ artifact = sample.artifact
    /\ project \in GenProjects
    /\ deployment = NotCalled
    /\ terraform = NotCalled
    /\ compose = NotCalled
    /\ notification \in
         { [email |-> "ops@example.com", platforms |-> p] :
             p \in { <<>>,
                     << [type |-> "discord", webhook |-> DiscordWebhook],
                        [type |-> "telegram", webhook |-> TelegramWebhook] >> } }
    /\ notify = NotCalled
    /\ post = [status |-> "idle"]
    /\ outputs = [generator \in Generators |-> <<>>]
    /\ NotValidating
    /\ NotCollecting
    /\ NotChoosing
    /\ credentialsEnv = NotCalled
    /\ NotRunning
    /\ NotStarted

\* One more call of a generator, in any order with the calls of the others.
Invoke(generator) ==
    /\ Len(outputs[generator]) < MaxCalls
    /\ outputs' = [outputs EXCEPT ![generator] = Append(@, Output(generator))]
    /\ UNCHANGED <<genVars, execVars, runVars, noteVars>>
    /\ UNCHANGED <<portVars, wizardVars, sourceVars, credentialsEnv>>

NextRepeat == \E generator \in Generators : Invoke(generator)

SpecRepeat == InitRepeat /\ [][NextRepeat]_vars

---------------------------------------------------------------------------
(* ValidationService.validatePort *)

\* Variant: the lower limit is 0.
validatePort_FromZero(port) == port >= 0 /\ port <= 65535

validatePort(port) == port >= 1 /\ port <= 65535

\* The numbers validatePort is tried on: every port, and the numbers next to
\* both limits.
PortInputs == (0 - PortMargin) .. (65535 + PortMargin)

InitPort ==
    /\ input \in PortInputs
    /\ valid = NotCalled
    /\ NotCollecting
    /\ NotChoosing
    /\ credentialsEnv = NotCalled
    /\ outputs = <<>>
    /\ NotGenerating
    /\ NotRunning
    /\ NotStarted
    /\ NotNotifying

ValidatePort ==
    /\ valid.status = "none"
    /\ valid' = [status |-> "returned", value |-> validatePort(input)]
    /\ UNCHANGED <<genVars, execVars, runVars, noteVars>>
    /\ UNCHANGED <<input, wizardVars, sourceVars, credentialsEnv, outputs>>

NextPort == ValidatePort

SpecPort == InitPort /\ [][NextPort]_vars

---------------------------------------------------------------------------
(* Reading generated text *)

\* Some line of `text` expands the shell variable `name`.
Reads(text, name) ==
    \E l \in DOMAIN text : \E i \in DOMAIN text[l].segs : text[l].segs[i] = Env(name)

\* The texts written right after one of the literals `keys` (shell and
\* Terraform references, which are not text yet, left out).
After(text, keys) ==
    UNION { { text[l].segs[i + 1].v :
                i \in { j \in 1 .. (Len(text[l].segs) - 1) :
                          /\ text[l].segs[j].k = "lit"
                          /\ text[l].segs[j].v \in keys
                          /\ text[l].segs[j + 1].k # "env" } } :
            l \in DOMAIN text }

\* The credential variables each authentication mode reads.
StaticCredentialVars ==
    {"AWS_ACCESS_KEY_ID", "AWS_SECRET_ACCESS_KEY", "AZURE_CLIENT_SECRET",
     "GCP_KEY_FILE", "DO_API_TOKEN"}
OidcVars == {"AWS_WEB_IDENTITY_TOKEN", "AZURE_FEDERATED_TOKEN", "GCP_OIDC_TOKEN"}

HasStaticLines(text) == \E v \in StaticCredentialVars : Reads(text, v)
HasOidcLines(text)   == \E v \in OidcVars : Reads(text, v)

\* The lines that assign the shell variable `name`.
Assigns(text, name) ==
    { l \in DOMAIN text : text[l].op \in {"set", "export"} /\ text[l].var = name }

\* `lines` occur in `text`, one after the other.
Contains(text, lines) ==
    \E d \in 0 .. (Len(text) - Len(lines)) :
        \A i \in DOMAIN lines : text[d + i] = lines[i]

\* Some segment of `text` spells `value`.
Spells(text, value) ==
    \E l \in DOMAIN text : \E i \in DOMAIN text[l].segs : text[l].segs[i].v = value

---------------------------------------------------------------------------
(* Claims about generateDeploymentScript *)

ProviderScript(config, dockerImageName) ==
    CASE config.provider = "aws" -> generateAWSDeploymentScript(config, dockerImageName)
      [] config.provider = "azure" ->
           generateAzureDeploymentScript(config, dockerImageName)
      [] config.provider = "gcp" -> generateGCPDeploymentScript(config, dockerImageName)
      [] config.provider = "digitalocean" ->
           generateDigitalOceanDeploymentScript(config, dockerImageName)

\* C1: once generateDeploymentScript has been called, a supported provider tag
\* has got exactly that provider's script, and any other tag an error and no
\* text at all.
C1_Dispatch ==
    deployment.status # "none" =>
        IF cloud.provider \in SupportedProviders
        THEN /\ deployment.status = "returned"
             /\ deployment.text = ProviderScript(cloud, artifact)
             /\ deployment.text # <<>>
        ELSE /\ deployment.status = "threw"
             /\ deployment.text = <<>>
             /\ deployment.error # ""

C1_Witness ==
    /\ cloud.provider \notin SupportedProviders
    /\ deployment.status = "threw"

\* C3: every returned deployment script authenticates in exactly one mode: it
\* reads static credentials or OIDC tokens, never both and never neither.
C3_OneAuthMode ==
    deployment.status = "returned" =>
        (HasStaticLines(deployment.text) # HasOidcLines(deployment.text))

C3_Witness ==
    /\ deployment.status = "returned"
    /\ cloud.provider = "aws"
    /\ cloud.credentials.useOIDC
    /\ HasOidcLines(deployment.text)
    /\ ~HasStaticLines(deployment.text)

\* C4 (as claimed): for aws, azure and gcp the useOIDC flag alone selects the
\* authentication block.
C4_FlagAloneSelects ==
    (deployment.status = "returned" /\ cloud.provider \in {"aws", "azure", "gcp"}) =>
        IF cloud.credentials.useOIDC
        THEN HasOidcLines(deployment.text) /\ ~HasStaticLines(deployment.text)
        ELSE HasStaticLines(deployment.text) /\ ~HasOidcLines(deployment.text)

\* The update command the script holds for each strategy: the update of the
\* service in the branch that the test on that strategy guards (rolling is
\* the branch left when no test matches).
Guard(text, l) ==
    LET gs == { g \in 1 .. (l - 1) : text[g].op \in {"if", "elif", "else", "fi"} }
    IN  IF gs = {} THEN 0 ELSE CHOOSE g \in gs : \A h \in gs : h <= g

IsUpdateCommand(line) ==
    /\ line.op = "run"
    /\ line.segs[1] \in {Lit("aws ecs update-service --cluster "),
                         Lit("doctl apps update ")}

StrategyCommands(text, strategy) ==
    { l \in DOMAIN text :
        /\ IsUpdateCommand(text[l])
        /\ Guard(text, l) > 0
        /\ LET g == text[Guard(text, l)] IN
           IF strategy = "rolling"
           THEN g.op = "else" /\ \E i \in DOMAIN text[l].segs :
                                    text[l].segs[i] = Lit(" --force-new-deployment")
           ELSE g.op \in {"if", "elif"} /\ g.var = "==" /\ g.segs[2] = Lit(strategy) }

\* C5 (as claimed): the script holds the configured strategy's command exactly
\* once and the command of no other strategy.
C5_StrategyCommandOnce ==
    deployment.status = "returned" =>
        \A strategy \in Strategies :
            Cardinality(StrategyCommands(deployment.text, strategy))
              = IF strategy = cloud.deploymentConfig.deploymentStrategy THEN 1 ELSE 0

DefaultUrlScript(config, dockerImageName) ==
    CASE config.provider = "aws" -> AWSDefaultUrlScript(config, dockerImageName)
      [] config.provider = "azure" -> AzureDefaultUrlScript(config, dockerImageName)
      [] config.provider = "gcp" -> GCPDefaultUrlScript
      [] config.provider = "digitalocean" -> DODefaultUrlScript

\* C7: with useLoadBalancer and a URL, DEPLOYED_URL is assigned once, the
\* literal URL, and no line of the provider's lookup is emitted; without
\* useLoadBalancer the provider's lookup is emitted and the configured URL is
\* nowhere in the script.
C7_LoadBalancerPrecedence ==
    deployment.status = "returned" =>
        LET dc == cloud.deploymentConfig
            text == deployment.text
            lookup == DefaultUrlScript(cloud, artifact)
        IN  /\ (dc.useLoadBalancer /\ dc.loadBalancerUrl # "") =>
                 /\ \A l \in Assigns(text, "DEPLOYED_URL") :
                        text[l] = Export("DEPLOYED_URL", <<Val(dc.loadBalancerUrl)>>)
                 /\ Cardinality(Assigns(text, "DEPLOYED_URL")) = 1
                 /\ \A i \in DOMAIN lookup : \A l \in DOMAIN text : text[l] # lookup[i]
            /\ ~dc.useLoadBalancer =>
                 /\ Contains(text, lookup)
                 /\ Cardinality(Assigns(text, "DEPLOYED_URL")) = 1
                 /\ dc.loadBalancerUrl # "" => ~Spells(text, dc.loadBalancerUrl)

C7_Witness ==
    /\ deployment.status = "returned"
    /\ cloud.deploymentConfig.useLoadBalancer
    /\ cloud.deploymentConfig.loadBalancerUrl = "https://api.example.com"
    /\ Spells(deployment.text, "https://api.example.com")

---------------------------------------------------------------------------
(* Where the templates write the configured values *)

PortKeys ==
    {"\"containerPort\": ",
     "\"command\": [\"CMD-SHELL\", \"curl -f http://localhost:",
     ":", " --ports ", ".azurecontainer.io:", " --platform managed --port ",
     "http_port: ", "port = ", "container_port = ", "http_port = "}

NameKeys ==
    {"aws ecs create-cluster --cluster-name ", "\"family\": \"", "\"name\": \"",
     "\"awslogs-group\": \"/ecs/", "aws ecs update-service --cluster ",
     "-cluster --service ", "-service --task-definition ",
     "aws ecs describe-services --cluster ", "-cluster --services ",
     "aws ecs create-service --cluster ", "-cluster --service-name ",
     "aws ecs list-tasks --cluster ", "aws ecs describe-tasks --cluster ",
     " --name ", " --dns-name-label ", "http://", "gcloud run deploy ",
     "name: ", "- name: ", "name = \"", "dns_name_label = \""}

RegionKeys ==
    {"aws configure set region ", "\"awslogs-region\": \"",
     "gcloud config set compute/region ",
     " --set-env-vars NODE_ENV=production --region ", "region: ",
     "region = \"", "location = \""}

PathKeys == {"http_path: ", "http_path = \""}

InstanceCountKeys ==
    {" --desired-count ", " --memory 512Mi --cpu 1 --min-instances ",
     " --max-instances ", "instance_count: ", "instance_count = "}

PortsIn(text) == After(text, PortKeys)
NamesIn(text) == After(text, NameKeys)
RegionsIn(text) == After(text, RegionKeys)
InstanceCountsIn(text) == After(text, InstanceCountKeys)

\* The health-check path follows its key, or the port of the curl probe.
PathsIn(text) ==
    After(text, PathKeys) \cup
    UNION { { text[l].segs[i + 2].v :
                i \in { j \in 1 .. (Len(text[l].segs) - 2) :
                          text[l].segs[j] =
                            Lit("\"command\": [\"CMD-SHELL\", \"curl -f http://localhost:") } } :
            l \in DOMAIN text }

\* The compose manifest's port mapping, the item "<port>:<port>" of a list.
ComposePorts(text) ==
    UNION { {text[l].segs[3].v, text[l].segs[5].v} :
            l \in { m \in DOMAIN text :
                      /\ Len(text[m].segs) = 6
                      /\ text[m].segs[2] = Lit("  - \"")
                      /\ text[m].segs[4] = Lit(":") } }

\* The lines "    depends_on:", which only the application service has.
DependsOnLines(text) ==
    { l \in DOMAIN text :
        text[l].segs = <<Lit("    "), Lit("depends_on"), Lit(":")>> }

AllGenerated ==
    /\ deployment.status = "returned"
    /\ terraform.status = "returned"
    /\ compose.status = "returned"

C10_FixedCapacityIsOne ==
    ~cloud.deploymentConfig.autoScaling =>
        /\ deployment.status = "returned" =>
             InstanceCountsIn(deployment.text) \subseteq {"1"}
        /\ terraform.status = "returned" =>
             InstanceCountsIn(terraform.text) \subseteq {"1"}

---------------------------------------------------------------------------
(* Claims about the script as it runs *)

IsCreateCommand(line) ==
    /\ line.op = "run"
    /\ line.segs[1] \in {Lit("aws ecs create-service --cluster "),
                         Lit("az container create --resource-group "),
                         Lit("doctl apps create --spec app-spec.yaml")}

\* The variables that hold the answer of an existence probe.
ProbeVars == {"SERVICE_EXISTS", "APP_ID"}

Probed(k) ==
    \E j \in 1 .. (k - 1) :
        script[ran[j]].op = "set" /\ script[ran[j]].var \in ProbeVars

Created == { k \in DOMAIN ran : IsCreateCommand(script[ran[k]]) }
Updated == { k \in DOMAIN ran : IsUpdateCommand(script[ran[k]]) }

\* C6 (as claimed): the script probes for the target, then creates it only
\* when it is absent and updates it only when it is present, and a finished
\* run has done exactly one of the two.
C6_ProbeThenOnePath ==
    /\ \A k \in Created : Probed(k) /\ ~present
    /\ \A k \in Updated : Probed(k) /\ present
    /\ Finished => Cardinality(Created) + Cardinality(Updated) = 1

\* C8: whatever deployment.env holds was appended when DEPLOYED_URL had been
\* assigned, it is the line DEPLOYED_URL=<value> with the value assigned, and
\* a finished run has appended it once.
C8_AppendAfterAssign ==
    /\ \A k \in DOMAIN stateFile :
          /\ "DEPLOYED_URL" \in DOMAIN shell
          /\ stateFile[k] = "DEPLOYED_URL=" \o shell["DEPLOYED_URL"]
    /\ Finished => Len(stateFile) = 1

C8_Witness ==
    /\ Finished
    /\ cloud.provider = "digitalocean"
    /\ ~cloud.deploymentConfig.useLoadBalancer
    /\ present
    /\ stateFile = <<"DEPLOYED_URL=https://app.ondigitalocean.app">>

\* The runs of the DigitalOcean lookup `doctl apps get $APP_ID ...`.
LookedUp ==
    { k \in DOMAIN ran :
        /\ script[ran[k]].op = "set"
        /\ script[ran[k]].var = "DEPLOYED_URL"
        /\ script[ran[k]].segs[1] = Lit("doctl apps get ") }

\* C28 (as claimed): when the DigitalOcean script has run its update command
\* or its URL lookup, APP_ID holds the id of the app named after the
\* artifact.
C28_AppIdIsTheTarget ==
    (cloud.provider = "digitalocean" /\ (Updated # {} \/ LookedUp # {})) =>
        /\ "APP_ID" \in DOMAIN shell
        /\ shell["APP_ID"] = TargetAppId

---------------------------------------------------------------------------
(* Claims about run *)

Artifacts ==
    {"Jenkinsfile", "docker-compose.yml", ".env.template", "main.tf",
     "dashboard.html", "CREDENTIALS_SETUP.md", "README.md", "config.encrypted.json"}

C20_ComposeOnlyWithDockerfile ==
    /\ compose.status # "none" => project.hasDockerfile
    /\ "docker-compose.yml" \in files =>
          project.hasDockerfile /\ compose.status = "returned"
    /\ (outcome = "done" /\ ~project.hasDockerfile) =>
          "docker-compose.yml" \notin files

C20_Witness ==
    /\ outcome = "done"
    /\ ~project.hasDockerfile
    /\ compose.status = "none"
    /\ files = Artifacts \ {"docker-compose.yml"}

---------------------------------------------------------------------------
(* Claims about generateTerraformConfig *)

\* C11 (as claimed): for a provider tag outside aws, azure, gcp and
\* digitalocean generateTerraformConfig fails and returns no manifest.
C11_TerraformRejectsUnknown ==
    (terraform.status # "none" /\ cloud.provider \notin SupportedProviders) =>
        terraform.status = "threw"

---------------------------------------------------------------------------
(* Claims about the notification script *)

ChannelRoutine ==
    [slack |-> "sendSlackNotification", discord |-> "sendDiscordNotification",
     teams |-> "sendTeamsNotification", telegram |-> "sendTelegramNotification"]

Channels == DOMAIN ChannelRoutine

\* The platforms of the configuration that have a webhook, by channel.
Configured(channel) ==
    IF "platforms" \notin DOMAIN notification THEN {}
    ELSE { i \in DOMAIN notification.platforms :
             /\ notification.platforms[i].type = channel
             /\ "webhook" \in DOMAIN notification.platforms[i]
             /\ notification.platforms[i].webhook # <<>> }

\* The bot API URLs and the chat ids of the telegram calls in the script.
TelegramUrls(text) ==
    { text[l].segs[2].v \o text[l].segs[3].v \o text[l].segs[4].v :
        l \in { m \in DOMAIN text :
                  /\ Len(text[m].segs) = 5
                  /\ text[m].segs[2] = Lit("https://api.telegram.org/bot") } }

ChatIds(text) == After(text, {"\"chat_id\": \""})

\* The URLs the other routines post to.
WebhookTargets(text) ==
    After(text, {"curl -X POST '"}) \ {"https://api.telegram.org/bot"}

\* The path segments of a URL scheme://host/seg/seg...
PathSegments(webhook) == Len(split(webhook, "/")) - 3

\* C12 (as claimed): for the webhook https://host/bot123:ABC/9876 the
\* telegram routine calls https://api.telegram.org/bot123:ABC/sendMessage
\* with chat id 9876.
C12_TelegramExtraction ==
    (/\ notify.status = "returned"
     /\ Configured("telegram") # {}
     /\ \A i \in Configured("telegram") :
            notification.platforms[i].webhook = TelegramWebhook) =>
        /\ TelegramUrls(notify.text) = {"https://api.telegram.org/bot123:ABC/sendMessage"}
        /\ ChatIds(notify.text) = {"9876"}

\* C13 (as claimed): with a telegram webhook of fewer than two path segments
\* generateNotificationScript fails and returns no script.
C13_ShortTelegramWebhookFails ==
    (/\ notify.status # "none"
     /\ \E i \in Configured("telegram") :
            PathSegments(notification.platforms[i].webhook) < 2) =>
        /\ notify.status = "threw"
        /\ notify.text = <<>>

\* C14: when the block of a build result is over, the email routine has been
\* called, and unless the email call itself threw, the block ran to its end
\* and each of the four channel routines has been called, whichever of them
\* threw.
C14_ChannelCallsIsolated ==
    post.status \in {"done", "aborted"} =>
        /\ "sendEmailNotification" \in post.invoked
        /\ "sendEmailNotification" \notin post.failed =>
             /\ post.status = "done"
             /\ \A c \in Channels : ChannelRoutine[c] \in post.invoked

C14_Witness ==
    /\ post.status = "done"
    /\ post.result = "failure"
    /\ post.failed = {"sendSlackNotification", "sendDiscordNotification",
                      "sendTelegramNotification"}
    /\ "sendTeamsNotification" \in post.invoked
    /\ Defines(notify.text, "sendTeamsNotification")

\* C15: every notification script holds the email routine once, and it is
\* addressed to config.email.
C15_EmailAlways ==
    notify.status # "none" =>
        /\ notify.status = "returned"
        /\ Cardinality(Definitions(notify.text, "sendEmailNotification")) = 1
        /\ After(notify.text, {"to: '"}) = {notification.email}

C15_Witness ==
    /\ notify.status = "returned"
    /\ "platforms" \notin DOMAIN notification
    /\ notification.email = "dev@example.com"
    /\ After(notify.text, {"to: '"}) = {"dev@example.com"}

---------------------------------------------------------------------------
(* Claims about the compose manifest *)

\* The lines "  <key>:" that open an entry of the services mapping.
ServiceKeyLines(text) ==
    { l \in DOMAIN text :
        /\ Len(text[l].segs) = 3
        /\ text[l].segs[1] = Lit("  ")
        /\ text[l].segs[3] = Lit(":") }

ServiceKeys(text) == { text[l].segs[2].v : l \in ServiceKeyLines(text) }

\* The lines of the entry `key`: those after its opening line and before the
\* next entry's.
ServiceBody(text, key) ==
    { m \in DOMAIN text :
        \E l \in ServiceKeyLines(text) :
            /\ text[l].segs[2].v = key
            /\ l < m
            /\ \A k \in ServiceKeyLines(text) : ~(l < k /\ k <= m) }

\* The lines "    <field>:" of the entry `key` that open a list or a mapping.
FieldLines(text, key, field) ==
    { m \in ServiceBody(text, key) :
        text[m].segs = <<Lit("    "), Lit(field), Lit(":")>> }

\* The items of the list `field` of the entry `key`, each the text between
\* its quotes.
ListItems(text, key, field) ==
    { SubSeq(text[m].segs, 3, Len(text[m].segs) - 1) :
        m \in { n \in ServiceBody(text, key) :
                  /\ Len(text[n].segs) >= 4
                  /\ text[n].segs[1] = Lit("    ")
                  /\ text[n].segs[2] = Lit("  - \"")
                  /\ \E f \in FieldLines(text, key, field) :
                        /\ f < n
                        /\ \A k \in (f + 1) .. (n - 1) :
                              text[k].segs[2] = Lit("  - \"") } }

\* The scalars `field: "<value>"` of the entry `key`.
Scalars(text, key, field) ==
    { text[m].segs[4].v :
        m \in { n \in ServiceBody(text, key) :
                  /\ Len(text[n].segs) = 5
                  /\ text[n].segs[1] = Lit("    ")
                  /\ text[n].segs[2] = Lit(field)
                  /\ text[n].segs[3] = Lit(": \"") } }

\* The names the application service's depends_on lists.
DependsOnNames(text) ==
    { item[1].v : item \in ListItems(text, "app", "depends_on") }

Infrastructure(externalServices) ==
    { i \in DOMAIN externalServices : externalServices[i].requiresInfrastructure }

\* The derived names of the services that ask for infrastructure.
InfrastructureNames(externalServices) ==
    { Join(replaceSpaceRuns(toLowerCase(externalServices[i].name), "-")) :
        i \in Infrastructure(externalServices) }

\* C17 (as claimed): the manifest has the application service, built from
\* the project, bound to <port>:<port>, whose depends_on lists exactly the
\* derived names of the services that ask for infrastructure; when no
\* service does, it is the only service.
C17_ApplicationServiceAlways ==
    compose.status # "none" =>
        LET port == Dec(cloud.deploymentConfig.port) IN
        /\ compose.status = "returned"
        /\ "app" \in ServiceKeys(compose.text)
        /\ Scalars(compose.text, "app", "build") = {"."}
        /\ ListItems(compose.text, "app", "ports")
             = { <<Val(port), Lit(":"), Val(port)>> }
        /\ FieldLines(compose.text, "app", "depends_on") # {}
        /\ DependsOnNames(compose.text) = InfrastructureNames(project.externalServices)
        /\ (Infrastructure(project.externalServices) = {}
              => ServiceKeys(compose.text) = {"app"})

\* C18 (as claimed): every name in the application service's depends_on is
\* a key of the services mapping, and every key the external services were
\* given, the lower-cased display name with "-" for each whitespace run, is in
\* depends_on.
C18_DependsOnMatchesKeys ==
    compose.status = "returned" =>
        /\ DependsOnNames(compose.text) \subseteq ServiceKeys(compose.text)
        /\ InfrastructureNames(project.externalServices)
             \subseteq ServiceKeys(compose.text)
        /\ InfrastructureNames(project.externalServices)
             \subseteq DependsOnNames(compose.text)
        /\ ServiceKeys(compose.text) \ {"app"} \subseteq DependsOnNames(compose.text)

\* The claim's table: product identifier to the name the image starts with.
ImageOf ==
    [postgresql |-> "postgres", mongodb |-> "mongo", redis |-> "redis",
     mysql |-> "mysql", mariadb |-> "mariadb", rabbitmq |-> "rabbitmq"]

ImageTags == {":latest", ":3-management"}

StartsWith(image, name) == \E tag \in ImageTags : image = name \o tag

\* The services whose definition the manifest holds: those that ask for
\* infrastructure, the last one of each derived name.
Defined(externalServices) ==
    { i \in Infrastructure(externalServices) :
        \A j \in Infrastructure(externalServices) :
            j > i => getServiceName(externalServices[j])
                       # getServiceName(externalServices[i]) }

\* C19: the manifest's entry for a service that asks for infrastructure has
\* the image the table gives for its product identifier, whatever the case
\* it is written in, and for a product the table does not know the alpine
\* image with the command "sleep infinity".
C19_LookupTable ==
    compose.status = "returned" =>
        \A i \in Defined(project.externalServices) :
            LET service == project.externalServices[i]
                key == getServiceName(service)
                id == Join(toLowerCase(service.service))
            IN  /\ key \in ServiceKeys(compose.text)
                /\ \E image \in Scalars(compose.text, key, "image") :
                      /\ Scalars(compose.text, key, "image") = {image}
                      /\ IF id \in DOMAIN ImageOf
                         THEN /\ StartsWith(image, ImageOf[id])
                              /\ Scalars(compose.text, key, "command") = {}
                         ELSE /\ StartsWith(image, "alpine")
                              /\ Scalars(compose.text, key, "command")
                                   = {"sleep infinity"}

C19_Witness ==
    /\ compose.status = "returned"
    /\ project.externalServices = <<MariaDb, UnknownThing>>
    /\ Scalars(compose.text, "maria-db", "image") = {"mariadb:latest"}
    /\ Scalars(compose.text, "thing", "image") = {"alpine:latest"}
    /\ Scalars(compose.text, "thing", "command") = {"sleep infinity"}

\* C29 (as claimed): for a list of distinct services the services mapping
\* has the application entry and one entry more for each service that asks
\* for infrastructure.
C29_OneEntryPerService ==
    LET externalServices == project.externalServices
        infra == Infrastructure(externalServices)
    IN  (/\ compose.status = "returned"
         /\ \A i, j \in infra : i # j => externalServices[i] # externalServices[j])
        => /\ Cardinality(ServiceKeys(compose.text)) = Cardinality(infra) + 1
           /\ Scalars(compose.text, "app", "build") = {"."}

---------------------------------------------------------------------------
(* Claims about secrets in generated text *)

\* The secrets of a platform: its webhook URL and, for telegram, the bot
\* token the URL carries.
PlatformSecrets(platform) ==
    {Join(platform.webhook)}
      \cup (IF platform.type = "telegram"
            THEN LET parts == split(platform.webhook, "/")
                 IN  {Element(parts, Len(parts) - 2)}
            ELSE {})

\* C22 (as claimed): the notification script spells no webhook URL and no
\* bot token of the configuration; a secret is referred to by name only.
C22_NoPlainSecrets ==
    notify.status = "returned" =>
        \A c \in Channels : \A i \in Configured(c) :
            \A secret \in PlatformSecrets(notification.platforms[i]) :
                ~Spells(notify.text, secret)

---------------------------------------------------------------------------
(* Claims about the post section *)

\* The calls of the block of a build result, in the order of the text.
BlockCalls(result) ==
    LET opening == CHOOSE l \in DOMAIN PostSection : PostSection[l] = Block(result)
        closing == CHOOSE l \in DOMAIN PostSection : PostSection[l] = EndBlock(result)
    IN  SubSeq(PostSection, opening + 1, closing - 1)

Results == {"success", "failure", "unstable"}

\* C25: in each block the first call is the email call, it is the one call
\* that is not wrapped, no channel routine is called before it, and when it
\* throws the block is over with no channel routine called; no other call
\* ends a block.
C25_EmailFirstAndUnguarded ==
    /\ \A result \in Results :
          LET calls == BlockCalls(result) IN
          /\ Len(calls) = 5
          /\ calls[1].op = "call" /\ calls[1].var = "sendEmailNotification"
          /\ \A i \in 2 .. 5 : calls[i].op = "try"
          /\ { calls[i].var : i \in 2 .. 5 } = { ChannelRoutine[c] : c \in Channels }
    /\ post.status # "idle" =>
          /\ post.invoked # {} => "sendEmailNotification" \in post.invoked
          /\ "sendEmailNotification" \in post.failed =>
               /\ post.status = "aborted"
               /\ post.invoked = {"sendEmailNotification"}
          /\ post.status = "aborted" => "sendEmailNotification" \in post.failed

C25_Witness ==
    /\ post.status = "aborted"
    /\ post.result = "unstable"
    /\ post.failed = {"sendEmailNotification"}
    /\ post.invoked = {"sendEmailNotification"}
    /\ Defines(notify.text, "sendSlackNotification")

\* C26 (as claimed): every routine the post section calls is defined in the
\* notification script of the same configuration, and a channel routine is
\* called only for a channel that has a platform with a webhook.
C26_CalledRoutinesDefined ==
    notify.status = "returned" =>
        \A l \in DOMAIN PostSection :
            PostSection[l].op \in {"call", "try"} =>
                /\ Defines(notify.text, PostSection[l].var)
                /\ \A c \in Channels :
                      PostSection[l].var = ChannelRoutine[c] => Configured(c) # {}

---------------------------------------------------------------------------
(* Claims about the credentials environment block *)

\* The variables the environment block binds.
Bound(text) == { text[l].var : l \in DOMAIN text } \ {""}

\* C27 (as claimed): every credential variable the deployment script reads
\* is bound by the credentials environment block of the same configuration.
C27_ReadCredentialsAreBound ==
    (deployment.status = "returned" /\ credentialsEnv.status = "returned") =>
        \A v \in StaticCredentialVars \cup OidcVars :
            Reads(deployment.text, v) => v \in Bound(credentialsEnv.text)

---------------------------------------------------------------------------
(* Claims about collectAllConfigurations *)

Keys(obj) == { obj[i].key : i \in DOMAIN obj }

\* The EnvVariable keys of the services.
DeclaredKeys(services) ==
    UNION { { services[i].envVariables[j].key : j \in DOMAIN services[i].envVariables } :
            i \in DOMAIN services }

\* C21 (as claimed): the keys of deploymentConfig.environmentVariables and of
\* jenkinsConfig.environmentVariables are the EnvVariable keys of the
\* services collected, each once.
C21_ConsolidatedKeys ==
    collected.status = "returned" =>
        LET deploymentEnv == collected.cloud.deploymentConfig.environmentVariables
            jenkinsEnv == collected.jenkinsConfig.environmentVariables
        IN  /\ Keys(deploymentEnv) = Keys(jenkinsEnv)
            /\ Keys(deploymentEnv) = DeclaredKeys(collected.project.externalServices)
            /\ \A i, j \in DOMAIN deploymentEnv :
                  deploymentEnv[i].key = deploymentEnv[j].key => i = j

---------------------------------------------------------------------------
(* Claims about the source of the configuration *)

\* C30 (as claimed): the wizard is asked at most once, and in a run that has
\* settled its configuration it was asked exactly when no preset was
\* loaded; the preset file is written only after the wizard was asked, in a
\* run that loaded no preset; generation starts with the configuration set.
C30_OneConfigurationSource ==
    source.pc # "idle" =>
        /\ source.wizard <= 1
        /\ source.wizard = 1 => ~source.loaded
        /\ source.pc \in {"generate", "generating"} =>
             (source.wizard = 1 <=> ~source.loaded)
        /\ source.written => (source.wizard = 1 /\ ~source.loaded)
        /\ source.pc = "generating" => source.config.truthy

---------------------------------------------------------------------------
(* Claims about repeated generator calls *)

---------------------------------------------------------------------------
(* Claims about validatePort *)

\* C24: validatePort answers true for the numbers from 1 to 65535 and false
\* for every other one.
C24_ValidPortRange ==
    valid.status = "returned" =>
        /\ valid.value \in BOOLEAN
        /\ valid.value <=> (1 <= input /\ input <= 65535)
        /\ input \in {0, 0 - 1, 65536} => valid.value = FALSE
        /\ input \in {1, 80, 3000, 65535} => valid.value = TRUE

C24_Witness ==
    /\ valid.status = "returned"
    /\ input = 65536
    /\ valid.value = FALSE

====
